---- MODULE Spec2Model ----
(***************************************************************************)
(* A model of todo_lib: the Task record (src/src/todotxt/task.rs), its     *)
(* date, recurrence and token helpers (src/src/todotxt/utils.rs), the      *)
(* timer (src/src/timer.rs) and the edit engine (src/src/todo.rs).         *)
(*                                                                         *)
(* A Rust String is a sequence of one-character strings, so that parsing   *)
(* and formatting are computed character by character as the code does.    *)
(* Option<T> is a sequence of length 0 (None) or 1 (Some).                 *)
(***************************************************************************)
EXTENDS Integers, Sequences, FiniteSets, TLC

VARIABLES
    tasks,   \* the task list (TaskVec); a Task method acts on its first task
    today,   \* the local date the operations read
    clock,   \* Utc::now() in seconds
    hist,    \* the operations called so far, each with its arguments
    old,     \* the task list before the last operation
    ret,     \* what the last operation returned
    origin,  \* the task list the session started from
    pc,      \* "idle", "hung" once a call does not return, the step save is
             \* at, or "crashed" once the process is gone
    disk,    \* the files: the contents of each file name, None when absent
    cursor   \* the number of tasks save has written

vars == <<tasks, today, clock, hist, old, ret, origin, pc, disk, cursor>>

-----------------------------------------------------------------------------
(* Option<T> *)

None == <<>>

Some(v) == <<v>>

IsSome(o) == Len(o) = 1

IsNone(o) == Len(o) = 0

Unwrap(o) == o[1]

\* Option::or
OrElse(o, other) == IF IsSome(o) THEN o ELSE other

\* F(x) with x the value of v: the code's `let x = v;`, v computed once
Bind(v, F(_)) == CHOOSE r \in {F(x) : x \in {v}} : TRUE

-----------------------------------------------------------------------------
(* Characters and strings *)

SP == " "

Digits == <<"0", "1", "2", "3", "4", "5", "6", "7", "8", "9">>

Upper == <<"A", "B", "C", "D", "E", "F", "G", "H", "I", "J", "K", "L", "M",
           "N", "O", "P", "Q", "R", "S", "T", "U", "V", "W", "X", "Y", "Z">>

IndexOf(seq, c) == CHOOSE i \in 1..Len(seq) : seq[i] = c

Lower == <<"a", "b", "c", "d", "e", "f", "g", "h", "i", "j", "k", "l", "m",
           "n", "o", "p", "q", "r", "s", "t", "u", "v", "w", "x", "y", "z">>

IsDigit(c) == \E i \in 1..Len(Digits) : Digits[i] = c

IsUpperCase(c) == \E i \in 1..Len(Upper) : Upper[i] = c

DigitVal(c) == IndexOf(Digits, c) - 1

\* case folding of one character, then of a string
FoldChar(c) == IF IsUpperCase(c) THEN Lower[IndexOf(Upper, c)] ELSE c

Fold(s) == [i \in 1..Len(s) |-> FoldChar(s[i])]

\* caseless::default_caseless_match_str
default_caseless_match_str(a, b) == Fold(a) = Fold(b)

SetMin(S) == CHOOSE x \in S : \A y \in S : x <= y

\* &s[from..] with a 0-based byte offset
From(s, from) == SubSeq(s, from + 1, Len(s))

\* &s[..to] with a 0-based exclusive end
UpTo(s, to) == SubSeq(s, 1, to)

StartsWith(s, p) == Len(p) <= Len(s) /\ SubSeq(s, 1, Len(p)) = p

EndsWith(s, p) == Len(p) <= Len(s) /\ SubSeq(s, Len(s) - Len(p) + 1, Len(s)) = p

\* str::find: 0-based offset of the first occurrence, -1 for None
Find(s, p) ==
    LET hits == {i \in 0..(Len(s) - Len(p)) : SubSeq(s, i + 1, i + Len(p)) = p}
    IN IF hits = {} THEN -1 ELSE SetMin(hits)

RECURSIVE TrimStart(_)
TrimStart(s) == IF s # <<>> /\ Head(s) = SP THEN TrimStart(Tail(s)) ELSE s

RECURSIVE TrimEnd(_)
TrimEnd(s) ==
    IF s # <<>> /\ s[Len(s)] = SP THEN TrimEnd(SubSeq(s, 1, Len(s) - 1)) ELSE s

Trim(s) == TrimEnd(TrimStart(s))

\* str::replace: non-overlapping matches, left to right
RECURSIVE StrReplace(_, _, _)
StrReplace(s, from, to) ==
    LET i == Find(s, from)
    IN IF i < 0 THEN s
       ELSE UpTo(s, i) \o to \o StrReplace(From(s, i + Len(from)), from, to)

\* str::split(c): the pieces between the separators, empty pieces included
RECURSIVE Split(_, _)
Split(s, c) ==
    LET i == Find(s, <<c>>)
    IN IF i < 0 THEN <<s>>
       ELSE <<UpTo(s, i)>> \o Split(From(s, i + 1), c)

\* str::split_whitespace: the non-empty pieces
RECURSIVE SplitWhitespace(_)
SplitWhitespace(s) ==
    LET t == TrimStart(s)
        i == Find(t, <<SP>>)
    IN IF t = <<>> THEN <<>>
       ELSE IF i < 0 THEN <<t>>
       ELSE <<UpTo(t, i)>> \o SplitWhitespace(From(t, i))

RECURSIVE DigitsVal(_, _)
DigitsVal(s, acc) ==
    IF s = <<>> THEN acc ELSE DigitsVal(Tail(s), acc * 10 + DigitVal(Head(s)))

\* str::parse::<u32>(): an optional '+', then one or more digits; -1 for Err
ParseUnsigned(s) ==
    LET body == IF s # <<>> /\ Head(s) = "+" THEN Tail(s) ELSE s
    IN IF body = <<>> \/ \E i \in 1..Len(body) : ~IsDigit(body[i]) THEN -1
       ELSE DigitsVal(body, 0)

\* str::parse::<i64>(): an optional sign, then one or more digits; the
\* result is [ok: parsed, n: the value]
ParseI64(s) ==
    LET neg == s # <<>> /\ Head(s) = "-"
        body == IF s # <<>> /\ Head(s) \in {"+", "-"} THEN Tail(s) ELSE s
    IN IF body = <<>> \/ \E i \in 1..Len(body) : ~IsDigit(body[i]) THEN [ok |-> FALSE, n |-> 0]
       ELSE [ok |-> TRUE, n |-> IF neg THEN 0 - DigitsVal(body, 0) ELSE DigitsVal(body, 0)]

\* str::parse::<u8>()
ParseU8(s) == LET n == ParseUnsigned(s) IN IF n > 255 THEN -1 ELSE n

RECURSIVE FormatNat(_)
FormatNat(n) ==
    IF n < 10 THEN <<Digits[n + 1]>> ELSE FormatNat(n \div 10) \o <<Digits[(n % 10) + 1]>>

\* format!("{}", n) of an i64
FormatInt(n) == IF n < 0 THEN <<"-">> \o FormatNat(0 - n) ELSE FormatNat(n)

RECURSIVE PadZero(_, _)
PadZero(s, width) == IF Len(s) >= width THEN s ELSE PadZero(<<"0">> \o s, width)

-----------------------------------------------------------------------------
(* Dates: NaiveDate is <<year, month, day>> *)

days_in_month(y, m) ==
    IF m \in {1, 3, 5, 7, 8, 10, 12} THEN 31
    ELSE IF m = 2
         THEN IF y % 4 = 0
              THEN IF y % 100 = 0 /\ y % 400 # 0 THEN 28 ELSE 29
              ELSE 28
    ELSE 30

\* NaiveDate::from_ymd_opt
FromYmdOpt(y, m, d) ==
    IF m >= 1 /\ m <= 12 /\ d >= 1 /\ d <= days_in_month(y, m)
    THEN Some(<<y, m, d>>) ELSE None

\* NaiveDate ordering
DateLt(a, b) ==
    \/ a[1] < b[1]
    \/ a[1] = b[1] /\ a[2] < b[2]
    \/ a[1] = b[1] /\ a[2] = b[2] /\ a[3] < b[3]

DateLe(a, b) == a = b \/ DateLt(a, b)

NextDay(dt) ==
    IF dt[3] < days_in_month(dt[1], dt[2]) THEN <<dt[1], dt[2], dt[3] + 1>>
    ELSE IF dt[2] < 12 THEN <<dt[1], dt[2] + 1, 1>>
    ELSE <<dt[1] + 1, 1, 1>>

\* base + Duration::days(n), n >= 0
RECURSIVE AddDays(_, _)
AddDays(dt, n) == IF n = 0 THEN dt ELSE AddDays(NextDay(dt), n - 1)

\* date.format("%Y-%m-%d")
format_date(dt) ==
    PadZero(FormatNat(dt[1]), 4) \o <<"-">> \o PadZero(FormatNat(dt[2]), 2)
        \o <<"-">> \o PadZero(FormatNat(dt[3]), 2)

-----------------------------------------------------------------------------
(* Recurrence *)

REC_TAG_FULL == <<"r", "e", "c", ":">>

Recurrence(period, count, strict) ==
    [period |-> period, count |-> count, strict |-> strict]

\* Recurrence::parse; None for Err
RecurrenceParse(str) ==
    LET s == IF StartsWith(str, REC_TAG_FULL) THEN From(str, Len(REC_TAG_FULL)) ELSE str
        period == IF EndsWith(s, <<"d">>) THEN "Day"
                  ELSE IF EndsWith(s, <<"w">>) THEN "Week"
                  ELSE IF EndsWith(s, <<"m">>) THEN "Month"
                  ELSE IF EndsWith(s, <<"y">>) THEN "Year"
                  ELSE "Err"
        num == ParseU8(UpTo(s, Len(s) - 1))
    IN IF period = "Err" THEN None
       ELSE IF num < 0 THEN None
       ELSE Some(Recurrence(period, num, StartsWith(s, <<"+">>)))

\* impl Display for Recurrence
RecurrenceFormat(rec) ==
    REC_TAG_FULL \o (IF rec.strict THEN <<"+">> ELSE <<>>) \o FormatNat(rec.count)
        \o (CASE rec.period = "Day" -> <<"d">>
              [] rec.period = "Week" -> <<"w">>
              [] rec.period = "Month" -> <<"m">>
              [] rec.period = "Year" -> <<"y">>)

\* next_date that keeps the day of month unless the target month is shorter
next_date_keep_day(rec, base) ==
    CASE rec.period = "Day" -> AddDays(base, rec.count)
      [] rec.period = "Week" -> AddDays(base, 7 * rec.count)
      [] rec.period = "Month" ->
            LET m0 == base[2] + rec.count
                y == IF m0 > 12 THEN base[1] + ((m0 - 1) \div 12) ELSE base[1]
                m == IF m0 > 12 THEN ((m0 - 1) % 12) + 1 ELSE m0
                mx == days_in_month(y, m)
            IN <<y, m, IF mx < base[3] THEN mx ELSE base[3]>>
      [] rec.period = "Year" ->
            LET mx == days_in_month(base[1] + rec.count, base[2])
            IN <<base[1] + rec.count, base[2], IF mx < base[3] THEN mx ELSE base[3]>>

\* Recurrence::next_date
next_date(rec, base) ==
    LET last == base[3] = days_in_month(base[1], base[2])
    IN CASE rec.period = "Day" -> AddDays(base, rec.count)
         [] rec.period = "Week" -> AddDays(base, 7 * rec.count)
         [] rec.period = "Month" ->
               LET m0 == base[2] + rec.count
                   y == IF m0 > 12 THEN base[1] + ((m0 - 1) \div 12) ELSE base[1]
                   m == IF m0 > 12 THEN ((m0 - 1) % 12) + 1 ELSE m0
                   mx == days_in_month(y, m)
                   d == IF (last /\ mx # base[3]) \/ mx < base[3] THEN mx ELSE base[3]
                   r == FromYmdOpt(y, m, d)
               IN IF IsSome(r) THEN Unwrap(r) ELSE base
         [] rec.period = "Year" ->
               LET y == base[1] + rec.count
                   m == base[2]
                   mx == days_in_month(y, m)
                   d == IF (last /\ mx # base[3]) \/ mx < base[3] THEN mx ELSE base[3]
                   r == FromYmdOpt(y, m, d)
               IN IF IsSome(r) THEN Unwrap(r) ELSE base

\* utils::parse_date; None for Err
parse_date(s, base) ==
    IF Find(s, <<"-">>) < 0
    THEN Bind(RecurrenceParse(s), LAMBDA rec :
              IF IsNone(rec) THEN None ELSE Some(next_date(Unwrap(rec), base)))
    ELSE Bind(Split(Trim(s), "-"), LAMBDA parts :
         Bind([i \in 1..Len(parts) |-> ParseUnsigned(parts[i])], LAMBDA vals :
              IF \E i \in 1..Len(vals) : vals[i] < 0 THEN None
              ELSE IF Len(vals) # 3 THEN None
              ELSE IF vals[1] = 0 THEN None
              ELSE IF vals[2] = 0 \/ vals[2] > 12 THEN None
              ELSE IF vals[3] = 0 \/ vals[3] > 31 THEN None
              ELSE LET mx == days_in_month(vals[1], vals[2])
                       d == IF vals[3] > mx THEN mx ELSE vals[3]
                   IN FromYmdOpt(vals[1], vals[2], d)))

-----------------------------------------------------------------------------
(* Priority helpers *)

NO_PRIORITY == 26

\* str::trim_matches over ' ', '(' and ')'
RECURSIVE TrimParens(_)
TrimParens(s) ==
    IF s # <<>> /\ Head(s) \in {" ", "(", ")"} THEN TrimParens(Tail(s))
    ELSE IF s # <<>> /\ s[Len(s)] \in {" ", "(", ")"}
         THEN TrimParens(SubSeq(s, 1, Len(s) - 1))
    ELSE s

\* utils::parse_priority; -1 for Err
parse_priority(s) ==
    LET trimmed == TrimParens(s)
    IN IF Len(s) # 3 THEN -1
       ELSE IF Len(trimmed) # 1 THEN -1
       ELSE IF ~IsUpperCase(trimmed[1]) THEN -1
       ELSE IndexOf(Upper, trimmed[1]) - 1

char_to_priority(c) == IF IsUpperCase(c) THEN IndexOf(Upper, c) - 1 ELSE NO_PRIORITY

str_to_priority(s) ==
    IF Len(s) > 1 THEN NO_PRIORITY
    ELSE IF s # <<>> THEN char_to_priority(s[1])
    ELSE NO_PRIORITY

priority_to_char(priority) == IF priority >= NO_PRIORITY THEN " " ELSE Upper[priority + 1]

format_priority(priority) ==
    IF priority >= NO_PRIORITY THEN <<>> ELSE <<"(", priority_to_char(priority), ")">>

-----------------------------------------------------------------------------
(* HashMap<String, String> *)

EmptyMap == [k \in {} |-> <<>>]

MapInsert(m, k, v) == [x \in (DOMAIN m) \cup {k} |-> IF x = k THEN v ELSE m[x]]

MapRemove(m, k) == [x \in (DOMAIN m) \ {k} |-> m[x]]

MapHas(m, k) == k \in DOMAIN m

-----------------------------------------------------------------------------
(* Token extractors *)

DUE_TAG == <<"d", "u", "e">>

THR_TAG == <<"t">>

REC_TAG == <<"r", "e", "c">>

UNTIL_TAG == <<"u", "n", "t", "i", "l">>

PRIORITY_TAG == <<"p", "r", "i">>

MakeTag(name, value) == name \o <<":">> \o value

\* utils::split_tag; None, or Some(<<name, value>>)
split_tag(s) ==
    LET pos == Find(s, <<":">>)
    IN IF s = <<>> THEN None
       ELSE IF pos < 0 THEN None
       ELSE IF pos > 0 /\ pos < Len(s) - 1
            THEN Some(<<UpTo(s, pos), From(s, pos + 1)>>)
       ELSE None

Contains(seq, x) == \E i \in 1..Len(seq) : seq[i] = x

\* the loop of utils::extract_anything
RECURSIVE ExtractLoop(_, _, _, _)
ExtractLoop(s_in0, idx, start_from, items) ==
    LET s_in == From(s_in0, idx)
        p_len == Len(start_from)
        start == Find(s_in, start_from)
        end == Find(From(s_in, start + p_len), <<SP>>)
        item == SubSeq(s_in, start + p_len + 1, start + p_len + end)
        items2 == IF item # <<>> /\ ~Contains(items, item) THEN Append(items, item) ELSE items
    IN IF start < 0 THEN items
       ELSE ExtractLoop(s_in, start + p_len + end, start_from, items2)

extract_anything(s, start_from) ==
    IF Len(start_from) = 0 THEN <<>> ELSE ExtractLoop(s, 0, start_from, <<>>)

extract_projects(s) == extract_anything(<<SP>> \o s \o <<SP>>, <<SP, "+">>)

extract_contexts(s) == extract_anything(<<SP>> \o s \o <<SP>>, <<SP, "@">>)

RECURSIVE ExtractTagsLoop(_, _)
ExtractTagsLoop(words, hm) ==
    IF words = <<>> THEN hm
    ELSE LET word == Head(words)
             nv == split_tag(word)
         IN IF word = <<>> \/ IsNone(nv) THEN ExtractTagsLoop(Tail(words), hm)
            ELSE ExtractTagsLoop(Tail(words), MapInsert(hm, Unwrap(nv)[1], Unwrap(nv)[2]))

extract_tags(s) == ExtractTagsLoop(Split(s, SP), EmptyMap)

RECURSIVE TrimStartHash(_)
TrimStartHash(s) == IF s # <<>> /\ Head(s) = "#" THEN TrimStartHash(Tail(s)) ELSE s

RECURSIVE ExtractHashtagsLoop(_, _)
ExtractHashtagsLoop(words, acc) ==
    IF words = <<>> THEN acc
    ELSE IF StartsWith(Head(words), <<"#">>)
         THEN ExtractHashtagsLoop(Tail(words), Append(acc, TrimStartHash(Head(words))))
    ELSE ExtractHashtagsLoop(Tail(words), acc)

extract_hashtags(s) == ExtractHashtagsLoop(Split(s, SP), <<>>)

\* utils::replace_word
replace_word(s, oldw, new) ==
    LET l == IF new = <<>> THEN Len(oldw) + 1 ELSE Len(oldw)
        s1 == IF StartsWith(s, oldw \o <<SP>>) THEN new \o From(s, l) ELSE s
        s2 == IF EndsWith(s1, <<SP>> \o oldw) THEN UpTo(s1, Len(s1) - l) \o new ELSE s1
    IN IF oldw = new THEN s
       ELSE IF s = oldw THEN new
       ELSE IF new = <<>> THEN StrReplace(s2, <<SP>> \o oldw \o <<SP>>, <<SP>>)
       ELSE StrReplace(s2, <<SP>> \o oldw \o <<SP>>, <<SP>> \o new \o <<SP>>)

-----------------------------------------------------------------------------
(* Task (src/src/todotxt/task.rs) *)

CompletionModes == {"JustMark", "MovePriority", "RemovePriority", "PriorityToTag"}

CompletionDateModes == {"WhenCreationDateIsPresent", "AlwaysSet"}

\* struct Task, as Task::validate first builds it
NewTask(s) ==
    [subject |-> <<>>,
     priority |-> NO_PRIORITY,
     finished |-> FALSE,
     contexts |-> extract_contexts(s),
     projects |-> extract_projects(s),
     tags |-> extract_tags(s),
     create_date |-> None,
     finish_date |-> None,
     due_date |-> None,
     threshold_date |-> None,
     recurrence |-> None,
     hashtags |-> extract_hashtags(s)]

\* impl Display for Task
Format(t) ==
    (IF t.finished THEN <<"x", SP>> ELSE <<>>)
    \o (IF t.priority < NO_PRIORITY THEN format_priority(t.priority) \o <<SP>> ELSE <<>>)
    \o (IF IsSome(t.finish_date) THEN format_date(Unwrap(t.finish_date)) \o <<SP>> ELSE <<>>)
    \o (IF IsSome(t.create_date) THEN format_date(Unwrap(t.create_date)) \o <<SP>> ELSE <<>>)
    \o t.subject

next_word(s) ==
    LET p == Find(s, <<SP>>)
    IN IF s = <<>> THEN s ELSE IF p < 0 THEN s ELSE UpTo(s, p)

try_read_date(s, base) ==
    IF s = <<>> THEN None
    ELSE IF IsDigit(s[1]) THEN parse_date(next_word(s), base)
    ELSE None

\* Task::validate from its second try_read_date on; the caller binds s3
validate_create_date(t3, s3, base) ==
    Bind(try_read_date(s3, base), LAMBDA d2 :
    Bind(Find(s3, <<SP>>), LAMBDA idx2 :
         IF IsNone(d2) THEN [t3 EXCEPT !.subject = s3]
         ELSE IF idx2 < 0 THEN [t3 EXCEPT !.create_date = d2]
         ELSE [t3 EXCEPT !.create_date = d2, !.subject = Trim(From(s3, idx2 + 1))]))

\* Task::validate from its first try_read_date on
validate_dates(t2, rest, base) ==
    Bind(rest, LAMBDA s2 :
    Bind(try_read_date(s2, base), LAMBDA d1 :
    Bind(Find(s2, <<SP>>), LAMBDA idx :
    Bind(IF t2.finished THEN [t2 EXCEPT !.finish_date = d1]
         ELSE [t2 EXCEPT !.create_date = d1], LAMBDA t3 :
         IF IsNone(d1) THEN [t2 EXCEPT !.subject = s2]
         ELSE IF idx < 0 THEN t3
         ELSE Bind(Trim(From(s2, idx + 1)), LAMBDA s3 :
                   IF ~t3.finished THEN [t3 EXCEPT !.subject = s3]
                   ELSE validate_create_date(t3, s3, base))))))

\* Task::validate from `if s.starts_with('(')` on; the caller binds t1 and s1
validate_priority(t1, s1, base) ==
    IF StartsWith(s1, <<"(">>)
    THEN Bind(next_word(s1), LAMBDA pw :
         Bind(parse_priority(pw), LAMBDA p :
              IF p < 0 THEN [t1 EXCEPT !.subject = s1]
              ELSE validate_dates([t1 EXCEPT !.priority = p],
                                  Trim(From(s1, Len(pw))), base)))
    ELSE validate_dates(t1, s1, base)

\* Task::validate
validate(line, base) ==
    Bind(StartsWith(line, <<"x", SP>>), LAMBDA fin :
    Bind([NewTask(line) EXCEPT !.finished = fin], LAMBDA t1 :
    Bind(IF fin THEN Trim(From(line, 2)) ELSE line, LAMBDA s1 :
         validate_priority(t1, s1, base))))

\* Task::replace_tag
replace_tag(t, old_tag, new_tag) ==
    LET subj == replace_word(t.subject, old_tag, new_tag)
        nv == split_tag(new_tag)
    IN [t EXCEPT !.subject = subj,
                 !.tags = IF IsSome(nv) THEN MapInsert(t.tags, Unwrap(nv)[1], Unwrap(nv)[2])
                          ELSE t.tags]

\* one special date tag of Task::parse_special_tags: the pair <<old_tag, new_tag>>
\* the loop collects for name, when its value is a date in another notation
SpecialPair(t, name, base) ==
    IF ~MapHas(t.tags, name) THEN <<>>
    ELSE Bind(parse_date(t.tags[name], base), LAMBDA dt :
              IF IsNone(dt) THEN <<>>
              ELSE Bind(<<MakeTag(name, t.tags[name]),
                          MakeTag(name, format_date(Unwrap(dt)))>>, LAMBDA pair :
                        IF pair[1] # pair[2] THEN pair ELSE <<>>))

ApplyPair(t, pair) ==
    Bind(pair, LAMBDA p : IF p = <<>> THEN t ELSE replace_tag(t, p[1], p[2]))

\* Task::parse_special_tags.  The loop reads the tags of the task as they
\* are on entry; the rewrites run afterwards, one per collected pair.  The
\* pairs name different words, so the order the map yields them in does not
\* show in the result; they are applied here in the order t, due, until.
parse_special_tags(t, base) ==
    LET rec == IF MapHas(t.tags, REC_TAG) THEN RecurrenceParse(t.tags[REC_TAG]) ELSE None
        thr == IF MapHas(t.tags, THR_TAG) THEN parse_date(t.tags[THR_TAG], base) ELSE None
        due == IF MapHas(t.tags, DUE_TAG) THEN parse_date(t.tags[DUE_TAG], base) ELSE None
        t1 == [t EXCEPT !.recurrence = OrElse(rec, t.recurrence),
                        !.threshold_date = OrElse(thr, t.threshold_date),
                        !.due_date = OrElse(due, t.due_date)]
    IN Bind(ApplyPair(t1, SpecialPair(t, THR_TAG, base)), LAMBDA a :
       Bind(ApplyPair(a, SpecialPair(t, DUE_TAG, base)), LAMBDA b :
            ApplyPair(b, SpecialPair(t, UNTIL_TAG, base))))

\* Task::parse
Parse(s, base) == Bind(validate(s, base), LAMBDA t : parse_special_tags(t, base))

\* Task::update_field; now is Local::now().date_naive()
update_field(t, tag, value, now) ==
    IF tag = DUE_TAG
    THEN [t EXCEPT !.due_date = IF value = <<>> THEN None ELSE parse_date(value, now)]
    ELSE IF tag = THR_TAG
    THEN [t EXCEPT !.threshold_date = IF value = <<>> THEN None ELSE parse_date(value, now)]
    ELSE IF tag = REC_TAG
    THEN [t EXCEPT !.recurrence = IF value = <<>> THEN None ELSE RecurrenceParse(value)]
    ELSE t

\* Task::update_tag_with_value; the result is [t: the task, r: the returned bool]
update_tag_with_value(t, tag, value, now) ==
    IF value = <<>>
    THEN IF MapHas(t.tags, tag)
         THEN LET removed == [t EXCEPT !.tags = MapRemove(t.tags, tag)]
                  old_tag == MakeTag(tag, t.tags[tag])
              IN [t |-> update_field(replace_tag(removed, old_tag, value), tag, value, now),
                  r |-> TRUE]
         ELSE [t |-> t, r |-> FALSE]
    ELSE IF ~MapHas(t.tags, tag)
    THEN LET appended == [t EXCEPT !.subject = t.subject \o <<SP>> \o MakeTag(tag, value),
                                   !.tags = MapInsert(t.tags, tag, value)]
         IN [t |-> update_field(appended, tag, value, now), r |-> TRUE]
    ELSE IF t.tags[tag] # value
    THEN [t |-> update_field(replace_tag(t, MakeTag(tag, t.tags[tag]), MakeTag(tag, value)),
                             tag, value, now),
          r |-> TRUE]
    ELSE [t |-> t, r |-> FALSE]

\* Task::update_tag
update_tag(t, new_tag, now) ==
    LET pos == Find(new_tag, <<":">>)
    IN IF pos <= 0 THEN [t |-> t, r |-> FALSE]
       ELSE update_tag_with_value(t, UpTo(new_tag, pos), From(new_tag, pos + 1), now)

\* Task::complete_with_config after its early return: the task it leaves
MarkComplete(t, date, mode, date_mode) ==
    LET fd == IF IsSome(t.create_date) \/ date_mode = "AlwaysSet" THEN Some(date)
              ELSE t.finish_date
        t1 == [t EXCEPT !.finished = TRUE, !.finish_date = fd]
        letter == <<priority_to_char(t.priority)>>
    IN IF mode = "RemovePriority"
       THEN [t1 EXCEPT !.priority = NO_PRIORITY]
       ELSE IF mode = "PriorityToTag" /\ t.priority < NO_PRIORITY
       THEN [t1 EXCEPT !.tags = MapInsert(t.tags, PRIORITY_TAG, letter),
                       !.subject = t.subject \o <<SP>> \o MakeTag(PRIORITY_TAG, letter),
                       !.priority = NO_PRIORITY]
       ELSE IF mode = "MovePriority" /\ t.priority < NO_PRIORITY /\ IsSome(fd)
       THEN [t1 EXCEPT !.subject = format_priority(t.priority) \o <<SP>> \o t.subject,
                       !.priority = NO_PRIORITY]
       ELSE t1

\* complete_with_config without its early return for a finished task
complete_any_task(t, date, mode, date_mode) ==
    [t |-> MarkComplete(t, date, mode, date_mode), r |-> TRUE]

\* Task::complete_with_config; r is the returned bool
complete_with_config(t, date, mode, date_mode) ==
    IF t.finished THEN [t |-> t, r |-> FALSE]
    ELSE [t |-> MarkComplete(t, date, mode, date_mode), r |-> TRUE]

\* the loop `while new < date { new = rec.next_date(new) }` of Task::next_dates:
\* Some(the date it exits with), or None when the body leaves new unchanged
\* while new < date, so that the loop never exits
RECURSIVE AdvanceLoop(_, _, _)
AdvanceLoop(rec, new, date) ==
    IF ~DateLt(new, date) THEN Some(new)
    ELSE IF next_date(rec, new) = new THEN None
    ELSE AdvanceLoop(rec, next_date(rec, new), date)

\* Task::next_dates; hang: the call does not return
next_dates(t, date) ==
    LET rec == Unwrap(t.recurrence)
        due == Unwrap(t.due_date)
        new_due == AdvanceLoop(rec, IF rec.strict THEN next_date(rec, due)
                                    ELSE next_date(rec, date), date)
        t1 == IF IsSome(t.due_date)
              THEN replace_tag([t EXCEPT !.due_date = new_due],
                               MakeTag(DUE_TAG, format_date(due)),
                               MakeTag(DUE_TAG, format_date(Unwrap(new_due))))
              ELSE t
        thr == Unwrap(t.threshold_date)
        new_thr == AdvanceLoop(rec, IF rec.strict THEN next_date(rec, thr)
                                    ELSE next_date(rec, date), date)
        t2 == IF IsSome(t.threshold_date)
              THEN replace_tag([t1 EXCEPT !.threshold_date = new_thr],
                               MakeTag(THR_TAG, format_date(thr)),
                               MakeTag(THR_TAG, format_date(Unwrap(new_thr))))
              ELSE t1
    IN IF t.finished THEN [t |-> t, r |-> FALSE, hang |-> FALSE]
       ELSE IF IsNone(t.due_date) /\ IsNone(t.threshold_date)
       THEN [t |-> t, r |-> FALSE, hang |-> FALSE]
       ELSE IF IsNone(t.recurrence) THEN [t |-> t, r |-> FALSE, hang |-> FALSE]
       ELSE IF IsSome(t.due_date) /\ IsNone(new_due) THEN [t |-> t, r |-> FALSE, hang |-> TRUE]
       ELSE IF IsSome(t.threshold_date) /\ IsNone(new_thr)
       THEN [t |-> t1, r |-> FALSE, hang |-> TRUE]
       ELSE [t |-> t2, r |-> TRUE, hang |-> FALSE]

\* Task::uncomplete
uncomplete(t, cmpl) ==
    LET pri == IF MapHas(t.tags, PRIORITY_TAG) THEN str_to_priority(t.tags[PRIORITY_TAG])
               ELSE NO_PRIORITY
        sp == Find(t.subject, <<SP>>)
        pri_s == IF sp >= 0 THEN UpTo(t.subject, sp) ELSE t.subject
        t1 == IF cmpl = "PriorityToTag" /\ pri # NO_PRIORITY
              THEN [t EXCEPT !.priority = pri,
                             !.tags = MapRemove(t.tags, PRIORITY_TAG),
                             !.subject = replace_word(t.subject,
                                 MakeTag(PRIORITY_TAG, <<priority_to_char(pri)>>), <<>>)]
              ELSE IF cmpl = "MovePriority" /\ parse_priority(pri_s) >= 0
              THEN [t EXCEPT !.priority = parse_priority(pri_s),
                             !.subject = TrimStart(From(t.subject, Len(pri_s)))]
              ELSE t
    IN IF ~t.finished THEN [t |-> t, r |-> FALSE]
       ELSE [t |-> [t1 EXCEPT !.finished = FALSE, !.finish_date = None], r |-> TRUE]

\* Vec::retain(|x| x != v)
RECURSIVE Retain(_, _)
Retain(list, v) ==
    IF list = <<>> THEN <<>>
    ELSE IF Head(list) # v THEN <<Head(list)>> \o Retain(Tail(list), v)
    ELSE Retain(Tail(list), v)

StripSigil(s, sigil) == IF StartsWith(s, <<sigil>>) THEN From(s, 1) ELSE s

\* Task::replace_project
replace_project(t, old0, new0) ==
    LET oldp == StripSigil(old0, "+")
        new == StripSigil(new0, "+")
    IN IF oldp = <<>>
       THEN IF new # <<>> /\ ~Contains(t.projects, new)
            THEN [t EXCEPT !.projects = Append(t.projects, new),
                           !.subject = t.subject \o <<SP, "+">> \o new]
            ELSE t
       ELSE IF new # <<>>
       THEN [t EXCEPT !.projects = Append(Retain(t.projects, oldp), new),
                      !.subject = replace_word(t.subject, <<"+">> \o oldp, <<"+">> \o new)]
       ELSE [t EXCEPT !.projects = Retain(t.projects, oldp),
                      !.subject = replace_word(t.subject, <<"+">> \o oldp, <<>>)]

\* Task::replace_context
replace_context(t, old0, new0) ==
    LET oldc == StripSigil(old0, "@")
        new == StripSigil(new0, "@")
    IN IF oldc = <<>>
       THEN IF new0 # <<>> /\ ~Contains(t.contexts, new0)
            THEN [t EXCEPT !.contexts = Append(t.contexts, new0),
                           !.subject = t.subject \o <<SP, "@">> \o new0]
            ELSE t
       ELSE IF new # <<>>
       THEN [t EXCEPT !.contexts = Append(Retain(t.contexts, oldc), new),
                      !.subject = replace_word(t.subject, <<"@">> \o oldc, <<"@">> \o new)]
       ELSE [t EXCEPT !.contexts = Retain(t.contexts, oldc),
                      !.subject = replace_word(t.subject, <<"@">> \o oldc, <<>>)]

\* Task::rec_until
rec_until(t, now) ==
    IF MapHas(t.tags, UNTIL_TAG) THEN parse_date(t.tags[UNTIL_TAG], now) ELSE None

-----------------------------------------------------------------------------
(* Timer (src/src/timer.rs); now is Utc::now() in seconds *)

TIMER_TAG == <<"t", "m", "r">>

SPENT_TAG == <<"s", "p", "e", "n", "t">>

TIMER_OFF == <<"o", "f", "f">>

is_timer_on(t) == MapHas(t.tags, TIMER_TAG) /\ t.tags[TIMER_TAG] # TIMER_OFF

\* timer::calc_time_spent; None, or Some(seconds)
calc_time_spent(t, now) ==
    LET started == ParseI64(t.tags[TIMER_TAG])
        sp == IF MapHas(t.tags, SPENT_TAG) THEN ParseI64(t.tags[SPENT_TAG])
              ELSE [ok |-> FALSE, n |-> 0]
        spent == IF sp.ok THEN sp.n ELSE 0
        diff == now - started.n
    IN IF MapHas(t.tags, TIMER_TAG) /\ started.ok
       THEN Some(IF diff > 0 THEN spent + diff ELSE spent)
       ELSE None

\* timer::start_timer
start_timer(t, now) ==
    IF t.finished \/ is_timer_on(t) THEN [t |-> t, r |-> FALSE]
    ELSE [t |-> [t EXCEPT !.tags = MapInsert(t.tags, TIMER_TAG, FormatInt(now))], r |-> TRUE]

\* timer::stop_timer
stop_timer(t, now) ==
    LET spent == calc_time_spent(t, now)
    IN IF ~is_timer_on(t) THEN [t |-> t, r |-> FALSE]
       ELSE IF IsSome(spent)
       THEN [t |-> [t EXCEPT !.tags = MapInsert(MapInsert(t.tags, SPENT_TAG,
                                                          FormatInt(Unwrap(spent))),
                                                TIMER_TAG, TIMER_OFF)],
             r |-> TRUE]
       ELSE [t |-> t, r |-> FALSE]

-----------------------------------------------------------------------------
(* Edit engine (src/src/todo.rs).  Its task type is built by from_str and   *)
(* changed by complete() and uncomplete(); they are Task::parse, and        *)
(* Task::complete_with_config and Task::uncomplete under the default        *)
(* CompletionConfig.  Recurrence + date is Recurrence::next_date.           *)

\* stands for 9_999_999_999, which is no index of any list
INVALID_ID == 0 - 1

DefaultConf ==
    [subject |-> None, done |-> TRUE,
     priority |-> NO_PRIORITY, priority_act |-> "None",
     due |-> None, due_act |-> "None",
     thr |-> None, thr_act |-> "None",
     recurrence |-> None, recurrence_act |-> "None",
     projects |-> <<>>, project_act |-> "None",
     contexts |-> <<>>, context_act |-> "None",
     auto_create_date |-> FALSE]

from_str(s, now) == Parse(s, now)

make_id_vec(sz) == [i \in 1..sz |-> i - 1]

\* todo::add; the result is [tasks: the list, id: the returned ID]
add(ts, c, now) ==
    IF IsNone(c.subject) THEN [tasks |-> ts, id |-> INVALID_ID]
    ELSE IF Unwrap(c.subject) = <<>> THEN [tasks |-> ts, id |-> INVALID_ID]
    ELSE Bind(from_str(Unwrap(c.subject), now), LAMBDA t :
              LET stamped == IF c.auto_create_date /\ IsNone(t.create_date)
                             THEN [t EXCEPT !.create_date = Some(now)] ELSE t
              IN [tasks |-> Append(ts, stamped), id |-> Len(ts)])

\* the loop `while cnt == 0 || new_due <= now` of done_undone: Some(<<the
\* due date it exits with, cnt>>), or None when it never exits
RECURSIVE DueLoop(_, _, _, _)
DueLoop(rr, new_due, cnt, now) ==
    IF ~(cnt = 0 \/ DateLe(new_due, now)) THEN Some(<<new_due, cnt>>)
    ELSE IF next_date(rr, new_due) = new_due /\ DateLe(new_due, now) THEN None
    ELSE DueLoop(rr, next_date(rr, new_due), cnt + 1, now)

RECURSIVE AddTimes(_, _, _)
AddTimes(rr, dt, cnt) == IF cnt = 0 THEN dt ELSE AddTimes(rr, next_date(rr, dt), cnt - 1)

\* the body of the loop of done_undone for one ID in range; the result is
\* [t: the task, r: bools[i], hang: the body does not end]
done_undone_step(stopped, t, c, now) ==
    LET t0 == stopped.t
        rr == Unwrap(t0.recurrence)
        loop == DueLoop(rr, Unwrap(t0.due_date), 0, now)
        advanced == [t0 EXCEPT !.due_date = Some(Unwrap(loop)[1]),
                               !.threshold_date =
                                   IF IsSome(t0.threshold_date)
                                   THEN Some(AddTimes(rr, Unwrap(t0.threshold_date),
                                                      Unwrap(loop)[2]))
                                   ELSE t0.threshold_date]
    IN IF c.done
       THEN IF IsSome(t0.recurrence) /\ IsSome(t0.due_date)
            THEN IF IsNone(loop) THEN [t |-> t0, r |-> stopped.r, hang |-> TRUE]
                 ELSE [t |-> advanced, r |-> TRUE, hang |-> FALSE]
            ELSE IF IsSome(t0.recurrence) /\ IsSome(t0.threshold_date)
            THEN [t |-> [t0 EXCEPT !.threshold_date =
                                       Some(next_date(rr, Unwrap(t0.threshold_date)))],
                  r |-> TRUE, hang |-> FALSE]
            ELSE IF ~t0.finished
            THEN [t |-> complete_with_config(t0, now, "JustMark",
                                             "WhenCreationDateIsPresent").t,
                  r |-> TRUE, hang |-> FALSE]
            ELSE [t |-> t0, r |-> stopped.r, hang |-> FALSE]
       ELSE IF t.finished
       THEN [t |-> uncomplete(t, "JustMark").t, r |-> TRUE, hang |-> FALSE]
       ELSE [t |-> t, r |-> FALSE, hang |-> FALSE]

done_undone_one(t, c, now, secs) ==
    Bind(stop_timer(t, secs), LAMBDA stopped : done_undone_step(stopped, t, c, now))

\* the loop of done_undone over id_iter, from position i on
RECURSIVE DoneUndoneLoop(_, _, _, _, _, _, _)
DoneUndoneLoop(ts, bools, id_iter, i, c, now, secs) ==
    IF i > Len(id_iter) THEN [tasks |-> ts, bools |-> bools, hang |-> FALSE]
    ELSE IF id_iter[i] >= Len(ts)
    THEN DoneUndoneLoop(ts, bools, id_iter, i + 1, c, now, secs)
    ELSE Bind(done_undone_one(ts[id_iter[i] + 1], c, now, secs), LAMBDA one :
         Bind([ts EXCEPT ![id_iter[i] + 1] = one.t], LAMBDA ts2 :
         Bind([bools EXCEPT ![i] = one.r], LAMBDA bools2 :
              IF one.hang THEN [tasks |-> ts2, bools |-> bools2, hang |-> TRUE]
              ELSE DoneUndoneLoop(ts2, bools2, id_iter, i + 1, c, now, secs))))

\* todo::done_undone; ids is Option<IDVec>
done_undone(ts, ids, c, now, secs) ==
    LET id_iter == IF IsSome(ids) THEN Unwrap(ids) ELSE make_id_vec(Len(ts))
    IN IF ts = <<>> THEN [tasks |-> ts, bools |-> <<>>, hang |-> FALSE]
       ELSE DoneUndoneLoop(ts, [i \in 1..Len(id_iter) |-> FALSE], id_iter, 1, c, now, secs)

\* todo::done
done(ts, ids, now, secs) == done_undone(ts, ids, [DefaultConf EXCEPT !.done = TRUE], now, secs)

\* todo::undone
undone(ts, ids, now, secs) ==
    done_undone(ts, ids, [DefaultConf EXCEPT !.done = FALSE], now, secs)

\* tsort::cmp_opt_dates
cmp_opt_dates(d1, d2) ==
    IF IsNone(d1) /\ IsNone(d2) THEN "Equal"
    ELSE IF IsSome(d1) /\ IsNone(d2) THEN "Less"
    ELSE IF IsNone(d1) /\ IsSome(d2) THEN "Greater"
    ELSE IF Unwrap(d1) = Unwrap(d2) THEN "Equal"
    ELSE IF DateLt(Unwrap(d1), Unwrap(d2)) THEN "Less"
    ELSE "Greater"

\* tsort::equal_opt_rec
equal_opt_rec(r1, r2) ==
    IF IsNone(r1) /\ IsNone(r2) THEN TRUE
    ELSE IF IsNone(r1) \/ IsNone(r2) THEN FALSE
    ELSE Unwrap(r1) = Unwrap(r2)

\* update_priority with an Increase that does not stop at A
update_priority_no_cap(t, c) ==
    IF c.priority_act = "Set" /\ t.priority # c.priority
    THEN [t |-> [t EXCEPT !.priority = c.priority], r |-> TRUE]
    ELSE IF c.priority_act = "Delete" /\ t.priority # NO_PRIORITY
    THEN [t |-> [t EXCEPT !.priority = NO_PRIORITY], r |-> TRUE]
    ELSE IF c.priority_act = "Increase"
    THEN [t |-> [t EXCEPT !.priority = (t.priority + 255) % 256], r |-> TRUE]
    ELSE IF c.priority_act = "Decrease" /\ t.priority # NO_PRIORITY
    THEN [t |-> [t EXCEPT !.priority = (t.priority + 1) % 256], r |-> TRUE]
    ELSE [t |-> t, r |-> FALSE]

\* todo::update_priority; every update_* yields [t: the task, r: changed]
update_priority(t, c) ==
    IF c.priority_act = "Set" /\ t.priority # c.priority
    THEN [t |-> [t EXCEPT !.priority = c.priority], r |-> TRUE]
    ELSE IF c.priority_act = "Delete" /\ t.priority # NO_PRIORITY
    THEN [t |-> [t EXCEPT !.priority = NO_PRIORITY], r |-> TRUE]
    ELSE IF c.priority_act = "Increase" /\ t.priority # 0
    THEN [t |-> [t EXCEPT !.priority = (t.priority - 1) % 256], r |-> TRUE]
    ELSE IF c.priority_act = "Decrease" /\ t.priority # NO_PRIORITY
    THEN [t |-> [t EXCEPT !.priority = (t.priority + 1) % 256], r |-> TRUE]
    ELSE [t |-> t, r |-> FALSE]

\* todo::update_due_date
update_due_date(t, c) ==
    IF c.due_act = "Set" /\ cmp_opt_dates(t.due_date, c.due) # "Equal"
    THEN [t |-> [t EXCEPT !.due_date = c.due], r |-> TRUE]
    ELSE IF c.due_act = "Delete" /\ IsSome(t.due_date)
    THEN [t |-> [t EXCEPT !.due_date = None], r |-> TRUE]
    ELSE [t |-> t, r |-> FALSE]

\* todo::update_thr_date
update_thr_date(t, c) ==
    IF c.thr_act = "Set" /\ cmp_opt_dates(t.threshold_date, c.thr) # "Equal"
    THEN [t |-> [t EXCEPT !.threshold_date = c.thr], r |-> TRUE]
    ELSE IF c.thr_act = "Delete" /\ IsSome(t.threshold_date)
    THEN [t |-> [t EXCEPT !.threshold_date = None], r |-> TRUE]
    ELSE [t |-> t, r |-> FALSE]

\* todo::remove_tag; <<Option<usize>, Option<String>>>
remove_tag(orig, patt) ==
    LET sp == Find(orig, <<SP>>)
        start == Find(orig, <<SP>> \o patt)
        new_orig == From(orig, start + 1)
        end == Find(new_orig, <<SP>>)
    IN IF orig = patt THEN <<Some(0), Some(<<>>)>>
       ELSE IF StartsWith(orig, patt)
       THEN IF sp < 0 THEN <<Some(0), Some(<<>>)>>
            ELSE <<Some(0), Some(From(orig, sp + 1))>>
       ELSE IF start < 0 THEN <<None, None>>
       ELSE IF end < 0 THEN <<Some(start), Some(UpTo(orig, start))>>
       ELSE <<Some(start), Some(UpTo(orig, start) \o From(new_orig, end))>>

\* todo::replace_tag; Option<String>
todo_replace_tag(orig, oldt, new) ==
    LET rm == remove_tag(orig, oldt)
        p == Unwrap(rm[1])
        str == Unwrap(rm[2])
        new_s == IF p # 0 THEN <<SP>> \o new
                 ELSE IF str # <<>> THEN new \o <<SP>>
                 ELSE new
    IN IF oldt = new THEN None
       ELSE IF IsNone(rm[1]) THEN None
       ELSE IF IsNone(rm[2]) THEN None
       ELSE Some(UpTo(str, p) \o new_s \o From(str, p))

\* todo::update_recurrence
update_recurrence(t, c) ==
    LET t1 == [t EXCEPT !.recurrence = c.recurrence]
        subj == todo_replace_tag(t.subject, REC_TAG_FULL, RecurrenceFormat(Unwrap(c.recurrence)))
        t2 == [t1 EXCEPT !.subject = Unwrap(subj)]
        rm == remove_tag(t.subject, REC_TAG_FULL)
    IN IF c.recurrence_act = "Set" /\ ~equal_opt_rec(t.recurrence, c.recurrence)
       THEN IF IsSome(c.recurrence)
            THEN IF IsSome(subj)
                 THEN [t |-> IF t2.finished THEN uncomplete(t2, "JustMark").t ELSE t2,
                       r |-> TRUE]
                 ELSE [t |-> t1, r |-> TRUE]
            ELSE [t |-> t1, r |-> FALSE]
       ELSE IF c.recurrence_act = "Delete" /\ IsSome(t.recurrence)
       THEN [t |-> IF IsSome(rm[1]) /\ IsSome(rm[2])
                   THEN [t EXCEPT !.recurrence = None, !.subject = Unwrap(rm[2])]
                   ELSE [t EXCEPT !.recurrence = None],
             r |-> TRUE]
       ELSE [t |-> t, r |-> FALSE]

\* todo::item_in_list: the 1-based position of the first caseless match, 0 for none
item_in_list(list, val) ==
    LET hits == {i \in 1..Len(list) : default_caseless_match_str(list[i], val)}
    IN IF hits = {} THEN 0 ELSE SetMin(hits)

RECURSIVE JoinPush(_, _, _)
JoinPush(words, oldw, new) ==
    IF words = <<>> THEN <<>>
    ELSE (IF default_caseless_match_str(Head(words), oldw)
          THEN (IF IsSome(new) THEN Unwrap(new) \o <<SP>> ELSE <<>>)
          ELSE Head(words) \o <<SP>>)
         \o JoinPush(Tail(words), oldw, new)

AnyWordMatches(orig, patt) ==
    LET words == SplitWhitespace(orig)
    IN \E i \in 1..Len(words) : default_caseless_match_str(words[i], patt)

\* todo::replace_proj_ctx; Option<String>
replace_proj_ctx(orig, oldw, new) ==
    IF oldw = new THEN None
    ELSE IF ~StartsWith(oldw, <<"@">>) /\ ~StartsWith(oldw, <<"+">>) THEN None
    ELSE IF AnyWordMatches(orig, oldw)
    THEN Some(Trim(JoinPush(SplitWhitespace(orig), oldw, Some(new))))
    ELSE None

\* todo::remove_proj_ctx; Option<String>
remove_proj_ctx(orig, patt) ==
    IF orig = patt THEN None
    ELSE IF ~StartsWith(patt, <<"@">>) /\ ~StartsWith(patt, <<"+">>) THEN None
    ELSE IF AnyWordMatches(orig, patt)
    THEN Some(Trim(JoinPush(SplitWhitespace(orig), patt, None)))
    ELSE None

RemoveAt(list, pos) == SubSeq(list, 1, pos - 1) \o SubSeq(list, pos + 1, Len(list))

\* str::split_terminator(c)
SplitTerminator(s, c) ==
    LET parts == Split(s, c)
    IN IF parts[Len(parts)] = <<>> THEN SubSeq(parts, 1, Len(parts) - 1) ELSE parts

\* one round of the loop of update_projects (sigil "+", field "projects") or
\* update_contexts (sigil "@", field "contexts") for the list entry new_p
update_list_one(st, act, new_p, sigil, field) ==
    LET t == st.t
        list == t[field]
        pos == item_in_list(list, new_p)
        removed == remove_proj_ctx(t.subject, <<sigil>> \o list[pos])
        pair == SplitTerminator(new_p, sigil)
        ppos == item_in_list(list, pair[1])
        replaced == replace_proj_ctx(t.subject, <<sigil>> \o list[ppos], <<sigil>> \o pair[2])
    IN IF act = "Set"
       THEN IF pos = 0
            THEN [t |-> [t EXCEPT !.subject = t.subject \o <<SP, sigil>> \o new_p,
                                  ![field] = Append(list, new_p)],
                  r |-> TRUE]
            ELSE st
       ELSE IF act = "Delete"
       THEN IF pos # 0 /\ IsSome(removed)
            THEN [t |-> [t EXCEPT !.subject = Unwrap(removed),
                                  ![field] = RemoveAt(list, pos)],
                  r |-> TRUE]
            ELSE st
       ELSE IF act = "Replace"
       THEN IF Len(pair) = 2 /\ pair[1] # pair[2] /\ pair[1] # <<>> /\ pair[2] # <<>>
               /\ ppos # 0 /\ IsSome(replaced)
            THEN [t |-> [t EXCEPT !.subject = Unwrap(replaced),
                                  ![field] = [list EXCEPT ![ppos] = <<sigil>> \o pair[2]]],
                  r |-> TRUE]
            ELSE st
       ELSE st

RECURSIVE UpdateListLoop(_, _, _, _, _)
UpdateListLoop(st, act, values, sigil, field) ==
    IF values = <<>> THEN st
    ELSE Bind(update_list_one(st, act, Head(values), sigil, field), LAMBDA st2 :
              UpdateListLoop(st2, act, Tail(values), sigil, field))

\* todo::update_projects
update_projects(t, c) ==
    UpdateListLoop([t |-> t, r |-> FALSE], c.project_act, c.projects, "+", "projects")

\* todo::update_contexts
update_contexts(t, c) ==
    UpdateListLoop([t |-> t, r |-> FALSE], c.context_act, c.contexts, "@", "contexts")

\* the body of the loop of todo::edit below the subject branch
edit_fields(t, c) ==
    Bind(update_priority(t, c), LAMBDA a :
    Bind(update_due_date(a.t, c), LAMBDA b :
    Bind(update_thr_date(b.t, c), LAMBDA d :
    Bind(update_recurrence(d.t, c), LAMBDA e :
    Bind(update_projects(e.t, c), LAMBDA f :
    Bind(update_contexts(f.t, c), LAMBDA g :
         [t |-> g.t, r |-> a.r \/ b.r \/ d.r \/ e.r \/ f.r \/ g.r]))))))

\* the loop of todo::edit over idlist, from position i on
RECURSIVE EditLoop(_, _, _, _, _, _)
\* the loop of edit without the break after a subject replacement
EditLoopNoBreak(ts, bools, idlist, i, c, now) ==
    IF i > Len(idlist) THEN [tasks |-> ts, bools |-> bools]
    ELSE IF idlist[i] >= Len(ts) THEN EditLoop(ts, bools, idlist, i + 1, c, now)
    ELSE IF IsSome(c.subject)
    THEN Bind(from_str(Unwrap(c.subject), now), LAMBDA t :
              EditLoop([ts EXCEPT ![idlist[i] + 1] = t], [bools EXCEPT ![i] = TRUE],
                       idlist, i + 1, c, now))
    ELSE Bind(edit_fields(ts[idlist[i] + 1], c), LAMBDA one :
              EditLoop([ts EXCEPT ![idlist[i] + 1] = one.t], [bools EXCEPT ![i] = one.r],
                       idlist, i + 1, c, now))

EditLoop(ts, bools, idlist, i, c, now) ==
    IF i > Len(idlist) THEN [tasks |-> ts, bools |-> bools]
    ELSE IF idlist[i] >= Len(ts) THEN EditLoop(ts, bools, idlist, i + 1, c, now)
    ELSE IF IsSome(c.subject)
    THEN Bind(from_str(Unwrap(c.subject), now), LAMBDA t :
              LET cur == ts[idlist[i] + 1]
                  kept == IF IsNone(t.create_date) /\ IsSome(cur.create_date)
                          THEN [t EXCEPT !.create_date = cur.create_date] ELSE t
              IN [tasks |-> [ts EXCEPT ![idlist[i] + 1] = kept],
                  bools |-> [bools EXCEPT ![i] = TRUE]])
    ELSE Bind(edit_fields(ts[idlist[i] + 1], c), LAMBDA one :
         Bind([ts EXCEPT ![idlist[i] + 1] = one.t], LAMBDA ts2 :
         Bind([bools EXCEPT ![i] = one.r], LAMBDA bools2 :
              EditLoop(ts2, bools2, idlist, i + 1, c, now))))

\* todo::edit
edit(ts, ids, c, now) ==
    LET idlist == IF IsSome(ids) THEN Unwrap(ids) ELSE make_id_vec(Len(ts))
    IN IF ts = <<>> THEN [tasks |-> ts, bools |-> <<>>]
       ELSE EditLoop(ts, [i \in 1..Len(idlist) |-> FALSE], idlist, 1, c, now)

\* the loop of remove that pushes to remained the tasks no ID of idlist
\* names, from position i on
RECURSIVE Remained(_, _, _, _)
Remained(ts, idlist, i, remained) ==
    IF i > Len(ts) THEN remained
    ELSE IF \E k \in 1..Len(idlist) : idlist[k] = i - 1
    THEN Remained(ts, idlist, i + 1, remained)
    ELSE Remained(ts, idlist, i + 1, Append(remained, ts[i]))

\* todo::remove with every entry of the result true, as its doc comment has it
remove_all_true(ts, ids) ==
    LET idlist == IF IsSome(ids) THEN Unwrap(ids) ELSE make_id_vec(Len(ts))
    IN IF ts = <<>> THEN [tasks |-> ts, bools |-> <<>>]
       ELSE [tasks |-> Remained(ts, idlist, 1, <<>>),
             bools |-> [k \in 1..Len(idlist) |-> TRUE]]

\* todo::remove; the result is [tasks: the list rebuilt, bools]
remove(ts, ids) ==
    LET idlist == IF IsSome(ids) THEN Unwrap(ids) ELSE make_id_vec(Len(ts))
    IN IF ts = <<>> THEN [tasks |-> ts, bools |-> <<>>]
       ELSE [tasks |-> Remained(ts, idlist, 1, <<>>),
             bools |-> [k \in 1..Len(idlist) |-> idlist[k] < Len(ts)]]

\* the loop of todo::start (on = TRUE) and of todo::stop (on = FALSE)
RECURSIVE TimerLoop(_, _, _, _, _, _)
TimerLoop(ts, bools, idlist, i, on, secs) ==
    IF i > Len(idlist) THEN [tasks |-> ts, bools |-> bools]
    ELSE IF idlist[i] >= Len(ts) THEN TimerLoop(ts, bools, idlist, i + 1, on, secs)
    ELSE Bind(IF on THEN start_timer(ts[idlist[i] + 1], secs)
              ELSE stop_timer(ts[idlist[i] + 1], secs), LAMBDA one :
         Bind([ts EXCEPT ![idlist[i] + 1] = one.t], LAMBDA ts2 :
         Bind([bools EXCEPT ![i] = one.r], LAMBDA bools2 :
              TimerLoop(ts2, bools2, idlist, i + 1, on, secs))))

\* todo::start
start(ts, ids, secs) ==
    LET idlist == IF IsSome(ids) THEN Unwrap(ids) ELSE make_id_vec(Len(ts))
    IN IF ts = <<>> THEN [tasks |-> ts, bools |-> <<>>]
       ELSE TimerLoop(ts, [i \in 1..Len(idlist) |-> FALSE], idlist, 1, TRUE, secs)

\* todo::stop
stop(ts, ids, secs) ==
    LET idlist == IF IsSome(ids) THEN Unwrap(ids) ELSE make_id_vec(Len(ts))
    IN IF ts = <<>> THEN [tasks |-> ts, bools |-> <<>>]
       ELSE TimerLoop(ts, [i \in 1..Len(idlist) |-> FALSE], idlist, 1, FALSE, secs)

-----------------------------------------------------------------------------
(* Persistence: save of src/src/todo.rs, one system call at a time *)

\* the position of the last c in s, 0 when there is none
LastIndexOf(s, c) ==
    IF \E i \in 1..Len(s) : s[i] = c
    THEN CHOOSE i \in 1..Len(s) : s[i] = c /\ \A j \in (i + 1)..Len(s) : s[j] # c
    ELSE 0

\* Path::with_extension on a file name without directories: the extension
\* is what follows the last dot, unless the name begins with that dot
WithExtension(filename, ext) ==
    LET dot == LastIndexOf(filename, ".")
        stem == IF dot > 1 THEN UpTo(filename, dot - 1) ELSE filename
    IN stem \o <<".">> \o ext

\* save writing to the file it is asked to save
tmpname_in_place(filename) == filename

\* the name of the temporary file of save
tmpname(filename) == WithExtension(filename, <<"t", "o", "d", "o", ".", "t", "m", "p">>)

\* format!("{}\n", t)
SaveLine(t) == Format(t) \o <<"\n">>

\* the bytes save writes for a whole list
RECURSIVE FileOf(_)
FileOf(ts) == IF ts = <<>> THEN <<>> ELSE SaveLine(Head(ts)) \o FileOf(Tail(ts))

\* File::create: the file exists and is empty
FileCreate(files, name) == [files EXCEPT ![name] = Some(<<>>)]

\* write on an open file: bytes go to its end
FileWrite(files, name, bytes) == [files EXCEPT ![name] = Some(Unwrap(files[name]) \o bytes)]

\* fs::rename: to holds what from held and from is gone, in one step
FileRename(files, from, to) ==
    IF from = to THEN files
    ELSE [files EXCEPT ![to] = files[from], ![from] = None]

-----------------------------------------------------------------------------
(* Inputs *)

\* "todo.txt"
FilePath == <<"t", "o", "d", "o", ".", "t", "x", "t">>

\* the file names of the model
Files == {FilePath, tmpname(FilePath)}

\* no file exists
NoFiles == [f \in Files |-> None]

\* the date the clock shows: 2020-02-02, the base date of tests/task.rs
Today0 == <<2020, 2, 2>>

Clock0 == 100

\* "foo bar"
LinePlain == <<"f", "o", "o", " ", "b", "a", "r">>

\* "(A) 2020-01-01 foo +p @c"
LinePriCreate == <<"(", "A", ")", " ", "2", "0", "2", "0", "-", "0", "1", "-", "0", "1", " ", "f", "o", "o", " ", "+", "p", " ", "@", "c">>

\* "x 2020-02-01 2020-01-01 foo"
LineFinished == <<"x", " ", "2", "0", "2", "0", "-", "0", "2", "-", "0", "1", " ", "2", "0", "2", "0", "-", "0", "1", "-", "0", "1", " ", "f", "o", "o">>

\* "x (B) foo"
LineFinishedPri == <<"x", " ", "(", "B", ")", " ", "f", "o", "o">>

\* "foo rec:+1m due:2020-03-01"
LineStrictAhead == <<"f", "o", "o", " ", "r", "e", "c", ":", "+", "1", "m", " ", "d", "u", "e", ":", "2", "0", "2", "0", "-", "0", "3", "-", "0", "1">>

\* "foo rec:+1d due:2020-01-20"
LineStrictBehind == <<"f", "o", "o", " ", "r", "e", "c", ":", "+", "1", "d", " ", "d", "u", "e", ":", "2", "0", "2", "0", "-", "0", "1", "-", "2", "0">>

\* "foo due:2020-01-31 rec:1w t:2020-01-30"
LineLax == <<"f", "o", "o", " ", "d", "u", "e", ":", "2", "0", "2", "0", "-", "0", "1", "-", "3", "1", " ", "r", "e", "c", ":", "1", "w", " ", "t", ":", "2", "0", "2", "0", "-", "0", "1", "-", "3", "0">>

\* "foo pri:A"
LinePriTag == <<"f", "o", "o", " ", "p", "r", "i", ":", "A">>

\* "2020-01-01 (B) foo"
LinePriWord == <<"2", "0", "2", "0", "-", "0", "1", "-", "0", "1", " ", "(", "B", ")", " ", "f", "o", "o">>

\* "a k:1 k:2"
LineDupKey == <<"a", " ", "k", ":", "1", " ", "k", ":", "2">>

\* "2020-01-01"
LineOnlyDate == <<"2", "0", "2", "0", "-", "0", "1", "-", "0", "1">>

\* "+p foo +q @c"
LineTwoProj == <<"+", "p", " ", "f", "o", "o", " ", "+", "q", " ", "@", "c">>

TaskLines == {LinePlain, LinePriCreate, LineFinished, LineFinishedPri, LineStrictAhead, LineStrictBehind, LineLax, LinePriTag, LinePriWord, LineDupKey, LineOnlyDate, LineTwoProj}

\* "k"
WK == <<"k">>

\* "1"
WV1 == <<"1">>

\* "2"
WV2 == <<"2">>

\* "p"
WP == <<"p">>

\* "q"
WQ == <<"q">>

\* "r"
WR == <<"r">>

\* "+p"
WPlusP == <<"+", "p">>

\* "c"
WC == <<"c">>

\* "d"
WD == <<"d">>

\* "1w"
WWeek == <<"1", "w">>

TagKeys == {WK, DUE_TAG, REC_TAG}

TagValues == {<<>>, WV2, WWeek}

\* "P"
WUpperP == <<"P">>

\* "C"
WUpperC == <<"C">>

ProjectOlds == {<<>>, WP, WR, WUpperP}

ProjectNews == {<<>>, WQ, WPlusP}

ContextOlds == {<<>>, WC, WD, WUpperC}

ContextNews == {<<>>, WD}

\* the number of operations of one session
MaxOps == 2

-----------------------------------------------------------------------------
(* Task methods, called on the first task of the list *)

Op(name, a, b) == [name |-> name, a |-> a, b |-> b]

LastOp == hist[Len(hist)]

CanCall == pc = "idle" /\ Len(hist) < MaxOps

\* a call of a Task method that returned r and left the task t
Returned(name, a, b, res) ==
    /\ tasks' = [tasks EXCEPT ![1] = res.t]
    /\ ret' = <<res.r>>
    /\ hist' = Append(hist, Op(name, a, b))
    /\ old' = tasks
    /\ UNCHANGED <<today, clock, origin, pc, disk, cursor>>

TaskComplete(mode, date_mode) ==
    /\ CanCall
    /\ Returned("complete_with_config", mode, date_mode,
                complete_with_config(tasks[1], today, mode, date_mode))

TaskUncomplete(mode) ==
    /\ CanCall
    /\ Returned("uncomplete", mode, mode, uncomplete(tasks[1], mode))

TaskUpdateTag(tag, value) ==
    /\ CanCall
    /\ Returned("update_tag_with_value", tag, value,
                update_tag_with_value(tasks[1], tag, value, today))

TaskReplaceProject(oldp, new) ==
    /\ CanCall
    /\ Returned("replace_project", oldp, new,
                [t |-> replace_project(tasks[1], oldp, new), r |-> TRUE])

TaskReplaceContext(oldc, new) ==
    /\ CanCall
    /\ Returned("replace_context", oldc, new,
                [t |-> replace_context(tasks[1], oldc, new), r |-> TRUE])

TaskNextDates ==
    /\ CanCall
    /\ \E res \in {next_dates(tasks[1], today)} :
          /\ tasks' = [tasks EXCEPT ![1] = res.t]
          /\ ret' = <<res.r>>
          /\ pc' = IF res.hang THEN "hung" ELSE "idle"
          /\ hist' = Append(hist, Op("next_dates", today, today))
          /\ old' = tasks
          /\ UNCHANGED <<today, clock, origin, disk, cursor>>

InitTask ==
    /\ today = Today0
    /\ clock = Clock0
    /\ \E line \in TaskLines : tasks = <<Parse(line, today)>>
    /\ origin = tasks
    /\ old = tasks
    /\ hist = <<>>
    /\ ret = <<>>
    /\ pc = "idle"
    /\ disk = NoFiles
    /\ cursor = 0

NextTask ==
    \/ \E mode \in CompletionModes, date_mode \in CompletionDateModes :
           TaskComplete(mode, date_mode)
    \/ \E mode \in CompletionModes : TaskUncomplete(mode)
    \/ \E tag \in TagKeys, value \in TagValues : TaskUpdateTag(tag, value)
    \/ \E oldp \in ProjectOlds, new \in ProjectNews : TaskReplaceProject(oldp, new)
    \/ \E oldc \in ContextOlds, new \in ContextNews : TaskReplaceContext(oldc, new)
    \/ TaskNextDates

SpecTask == InitTask /\ [][NextTask]_vars

-----------------------------------------------------------------------------
(* The edit engine on a list: add, done, undone and edit of src/src/todo.rs *)

\* "x foo"
LineDoneBare == <<"x", " ", "f", "o", "o">>

\* "foo due:2020-02-01 rec:+1m until:2020-02-15"
LineUntil == <<"f", "o", "o", " ", "d", "u", "e", ":", "2", "0", "2", "0", "-", "0", "2", "-", "0", "1", " ", "r", "e", "c", ":", "+", "1", "m", " ", "u", "n", "t", "i", "l", ":", "2", "0", "2", "0", "-", "0", "2", "-", "1", "5">>

\* "foo rec:2d t:2020-01-30"
LineThrOnly == <<"f", "o", "o", " ", "r", "e", "c", ":", "2", "d", " ", "t", ":", "2", "0", "2", "0", "-", "0", "1", "-", "3", "0">>

\* "x bar due:2020-05-05"
LineDoneDue == <<"x", " ", "b", "a", "r", " ", "d", "u", "e", ":", "2", "0", "2", "0", "-", "0", "5", "-", "0", "5">>

\* the lists a session starts with, each line as todo::load reads it
TaskLists ==
    {<<LinePlain>>,
     <<LineStrictAhead, LineFinished>>,
     <<LineLax, LinePriCreate>>,
     <<LineUntil, LineThrOnly>>}

AddSubjects == {None, Some(<<>>), Some(LineDoneBare), Some(LineStrictBehind)}

DoneIds == {None, Some(<<0>>), Some(<<1, 5>>)}

\* 2020-03-03
EditDate == <<2020, 3, 3>>

EditConfs ==
    {[DefaultConf EXCEPT !.due = Some(EditDate), !.due_act = "Set"],
     [DefaultConf EXCEPT !.due_act = "Delete"],
     [DefaultConf EXCEPT !.thr = Some(EditDate), !.thr_act = "Set"],
     [DefaultConf EXCEPT !.recurrence = Some(Recurrence("Week", 1, FALSE)),
                         !.recurrence_act = "Set"],
     [DefaultConf EXCEPT !.recurrence_act = "Delete"],
     [DefaultConf EXCEPT !.subject = Some(LineDoneDue)],
     [DefaultConf EXCEPT !.subject = Some(LinePlain), !.priority = 0, !.priority_act = "Set",
                         !.due = Some(EditDate), !.due_act = "Set",
                         !.projects = <<WQ>>, !.project_act = "Set"],
     [DefaultConf EXCEPT !.priority = 0, !.priority_act = "Set"],
     [DefaultConf EXCEPT !.projects = <<WQ>>, !.project_act = "Set"],
     [DefaultConf EXCEPT !.contexts = <<WC>>, !.context_act = "Delete"]}

\* what every call of the engine leaves behind
EngineCalled(name, a, b, result) ==
    /\ ret' = result
    /\ hist' = Append(hist, Op(name, a, b))
    /\ old' = tasks
    /\ UNCHANGED <<today, origin, disk, cursor>>

\* the seconds that pass before a call reads Utc::now(); the clock may also
\* be set back
Waits == {0 - 3, 0, 7}

\* todo::add
Add(subject, auto_create_date) ==
    /\ CanCall
    /\ \E res \in {add(tasks, [DefaultConf EXCEPT !.subject = subject,
                                                   !.auto_create_date = auto_create_date],
                        today)} :
          /\ tasks' = res.tasks
          /\ EngineCalled("add", subject, auto_create_date, <<res.id>>)
          /\ UNCHANGED <<pc, clock>>

\* todo::done
Done(ids) ==
    /\ CanCall
    /\ \E res \in {done(tasks, ids, today, clock)} :
          /\ tasks' = res.tasks
          /\ pc' = IF res.hang THEN "hung" ELSE "idle"
          /\ EngineCalled("done", ids, ids, res.bools)
          /\ UNCHANGED clock

\* todo::undone
Undone(ids) ==
    /\ CanCall
    /\ \E res \in {undone(tasks, ids, today, clock)} :
          /\ tasks' = res.tasks
          /\ EngineCalled("undone", ids, ids, res.bools)
          /\ UNCHANGED <<pc, clock>>

\* todo::edit
Edit(ids, c) ==
    /\ CanCall
    /\ \E res \in {edit(tasks, ids, c, today)} :
          /\ tasks' = res.tasks
          /\ EngineCalled("edit", ids, c, res.bools)
          /\ UNCHANGED <<pc, clock>>

\* todo::remove
Remove(ids) ==
    /\ CanCall
    /\ \E res \in {remove(tasks, ids)} :
          /\ tasks' = res.tasks
          /\ EngineCalled("remove", ids, ids, res.bools)
          /\ UNCHANGED <<pc, clock>>

\* todo::start, wait seconds after the last call
Start(ids, wait) ==
    /\ CanCall
    /\ clock' = clock + wait
    /\ \E res \in {start(tasks, ids, clock + wait)} :
          /\ tasks' = res.tasks
          /\ EngineCalled("start", ids, wait, res.bools)
          /\ UNCHANGED pc

\* todo::stop, wait seconds after the last call
Stop(ids, wait) ==
    /\ CanCall
    /\ clock' = clock + wait
    /\ \E res \in {stop(tasks, ids, clock + wait)} :
          /\ tasks' = res.tasks
          /\ EngineCalled("stop", ids, wait, res.bools)
          /\ UNCHANGED pc

Init ==
    /\ today = Today0
    /\ clock = Clock0
    /\ \E lines \in TaskLists : tasks = [i \in 1..Len(lines) |-> from_str(lines[i], today)]
    /\ origin = tasks
    /\ old = tasks
    /\ hist = <<>>
    /\ ret = <<>>
    /\ pc = "idle"
    /\ disk = NoFiles
    /\ cursor = 0

Next ==
    \/ \E subject \in AddSubjects, auto_create_date \in BOOLEAN : Add(subject, auto_create_date)
    \/ \E ids \in DoneIds : Done(ids)
    \/ \E ids \in DoneIds : Undone(ids)
    \/ \E ids \in DoneIds, c \in EditConfs : Edit(ids, c)
    \/ \E ids \in DoneIds : Remove(ids)
    \/ \E ids \in DoneIds, wait \in Waits : Start(ids, wait)
    \/ \E ids \in DoneIds, wait \in Waits : Stop(ids, wait)

Spec == Init /\ [][Next]_vars

(***************************************************************************)
(* Properties of the Task methods, checked under SpecTask *)

TaskIdle == pc = "idle"

Called(name) == hist # <<>> /\ LastOp.name = name

NoDuplicates(list) ==
    \A i, j \in 1..Len(list) : list[i] = list[j] => i = j

\* the lists and the map of t are the ones its subject yields
ListsMatchSubject(t) ==
    /\ t.projects = extract_projects(t.subject)
    /\ t.contexts = extract_contexts(t.subject)

\* C3: parsing the formatted line of a task that parse and the Task methods
\* produced gives back the same task, field by field.
C3_RoundTrip ==
    TaskIdle => Parse(Format(tasks[1]), today) = tasks[1]

\* C4: after update_tag_with_value on a task whose tags map matched its
\* subject, the tags extracted from the new subject are exactly the tags map.
C4_TagsMatchSubject ==
    (Called("update_tag_with_value") /\ extract_tags(old[1].subject) = old[1].tags)
        => extract_tags(tasks[1].subject) = tasks[1].tags

\* C5: after replace_project or replace_context on a task whose lists matched
\* its subject, each list equals the list extracted from the new subject, in
\* the same order and without duplicates.
C5_ListsMatchSubject ==
    ((Called("replace_project") \/ Called("replace_context")) /\ ListsMatchSubject(old[1]))
        => /\ ListsMatchSubject(tasks[1])
           /\ NoDuplicates(tasks[1].projects)
           /\ NoDuplicates(tasks[1].contexts)

\* C8: complete_with_config on a finished task and uncomplete on an
\* unfinished task return false and leave every field as it was, in every mode.
C8_NoOpOnSameState ==
    /\ (Called("complete_with_config") /\ old[1].finished)
           => (ret = <<FALSE>> /\ tasks = old)
    /\ (Called("uncomplete") /\ ~old[1].finished)
           => (ret = <<FALSE>> /\ tasks = old)

\* C8 happens: complete_with_config was called in mode PriorityToTag, with
\* AlwaysSet, on a finished task that has a priority and no finish date.
C8_Witness ==
    /\ Called("complete_with_config")
    /\ LastOp.a = "PriorityToTag"
    /\ LastOp.b = "AlwaysSet"
    /\ old[1].finished
    /\ old[1].priority < NO_PRIORITY
    /\ IsNone(old[1].finish_date)

\* C9: completing an unfinished parsed task and then uncompleting it in the
\* same mode (JustMark, MovePriority or PriorityToTag), under either date mode,
\* gives a task that formats to the line the parsed task formats to.
C9_CompleteUncomplete ==
    (/\ Len(hist) = 2
     /\ hist[1].name = "complete_with_config"
     /\ hist[1].a \in {"JustMark", "MovePriority", "PriorityToTag"}
     /\ hist[2].name = "uncomplete"
     /\ hist[2].a = hist[1].a
     /\ ~origin[1].finished)
        => Format(tasks[1]) = Format(origin[1])

\* C10: next_dates on a task with a strict recurrence sets the due date to
\* exactly one recurrence step after the old due date; with a non-strict
\* recurrence it sets it to one step after today, stepped further while it is
\* before today.
C10_NextDue ==
    (Called("next_dates") /\ TaskIdle /\ ret = <<TRUE>> /\ IsSome(old[1].due_date))
        => LET rec == Unwrap(old[1].recurrence)
           IN tasks[1].due_date =
                  IF rec.strict THEN Some(next_date(rec, Unwrap(old[1].due_date)))
                  ELSE AdvanceLoop(rec, next_date(rec, today), today)

-----------------------------------------------------------------------------
(* Properties of the edit engine, checked under Spec *)

\* the positions, 1-based, that a call with these ids visits in a list of n tasks
Visited(ids, n) ==
    IF IsNone(ids) THEN 1..n
    ELSE {Unwrap(ids)[k] + 1 : k \in {j \in 1..Len(Unwrap(ids)) : Unwrap(ids)[j] < n}}

\* t is unfinished and recurs from a due or a threshold date
Recurring(t) ==
    /\ ~t.finished
    /\ IsSome(t.recurrence)
    /\ IsSome(t.due_date) \/ IsSome(t.threshold_date)

\* the until date of t is earlier than the due date next_dates gives t
UntilPassed(t) ==
    LET until == rec_until(t, today)
        new_due == next_dates(t, today).t.due_date
    IN IsSome(until) /\ IsSome(new_due) /\ DateLt(Unwrap(until), Unwrap(new_due))

\* C1: done appends exactly one task for every visited unfinished recurring
\* task with a due or threshold date whose until date is not earlier than the
\* new due date, and appends nothing for any other task.
C1_DoneAppendsOnePerRecurring ==
    (Called("done") /\ TaskIdle)
        => Len(tasks) = Len(old)
              + Cardinality({i \in Visited(LastOp.a, Len(old)) :
                                Recurring(old[i]) /\ ~UntilPassed(old[i])})

\* C2: done marks a visited unfinished recurring task finished and leaves its
\* due and threshold dates as they were; every task the call appended is
\* unfinished.
C2_DoneMarksOriginal ==
    (Called("done") /\ TaskIdle)
        => /\ \A i \in Visited(LastOp.a, Len(old)) :
                  Recurring(old[i])
                      => /\ tasks[i].finished
                         /\ tasks[i].due_date = old[i].due_date
                         /\ tasks[i].threshold_date = old[i].threshold_date
           /\ \A i \in (Len(old) + 1)..Len(tasks) : ~tasks[i].finished

\* the date (or recurrence) field is what the tag of that name parses to
Mirrors(t, name, field) ==
    field = IF ~MapHas(t.tags, name) THEN None
            ELSE IF name = REC_TAG THEN RecurrenceParse(t.tags[name])
            ELSE parse_date(t.tags[name], today)

\* C6: after parse and any sequence of edit calls, in every task due_date,
\* threshold_date and recurrence are the values the tags due, t and rec parse
\* to, and None when the tag is absent or invalid.
C6_FieldsMirrorTags ==
    (\A k \in 1..Len(hist) : hist[k].name = "edit")
        => \A i \in 1..Len(tasks) :
               /\ Mirrors(tasks[i], DUE_TAG, tasks[i].due_date)
               /\ Mirrors(tasks[i], THR_TAG, tasks[i].threshold_date)
               /\ Mirrors(tasks[i], REC_TAG, tasks[i].recurrence)

\* C7: after every operation, a finished task that has a creation date has a
\* finish date.
C7_FinishedHasFinishDate ==
    TaskIdle
        => \A i \in 1..Len(tasks) :
               (tasks[i].finished /\ IsSome(tasks[i].create_date))
                   => IsSome(tasks[i].finish_date)

-----------------------------------------------------------------------------
(* Recurrence::next_date on its own: a date stepped by recurrences *)

\* the dates next_date starts from: ends of months, a leap day, days that the
\* next month lacks, and days every month has
BaseDates ==
    {<<2020, 1, 31>>, <<2020, 2, 29>>, <<2019, 2, 28>>, <<2020, 1, 30>>,
     <<2020, 1, 15>>, <<2020, 4, 30>>, <<2020, 11, 30>>, <<2020, 12, 31>>,
     <<2021, 1, 29>>, <<2020, 2, 28>>}

\* the recurrences applied: months and years, within and across a year's end,
\* and a day and a week
Recs ==
    {Recurrence("Month", n, FALSE) : n \in {0, 1, 2, 11, 13}}
        \cup {Recurrence("Year", n, FALSE) : n \in {1, 4}}
        \cup {Recurrence("Day", 1, FALSE), Recurrence("Week", 1, FALSE)}

\* rec.next_date(base), base being the date the previous call returned or,
\* for the first call, the starting date
NextDate(rec) ==
    /\ CanCall
    /\ \E base \in {IF ret = <<>> THEN today ELSE ret[1]} :
          /\ ret' = <<next_date(rec, base)>>
          /\ hist' = Append(hist, Op("next_date", rec, base))
    /\ UNCHANGED <<tasks, today, clock, old, origin, pc, disk, cursor>>

InitDate ==
    /\ today \in BaseDates
    /\ clock = Clock0
    /\ tasks = <<>>
    /\ origin = tasks
    /\ old = tasks
    /\ hist = <<>>
    /\ ret = <<>>
    /\ pc = "idle"
    /\ disk = NoFiles
    /\ cursor = 0

NextDateStep == \E rec \in Recs : NextDate(rec)

SpecDate == InitDate /\ [][NextDateStep]_vars

\* the month that lies n months after the month of base, as <<year, month>>
TargetMonth(base, n) ==
    LET total == base[1] * 12 + (base[2] - 1) + n
    IN <<total \div 12, (total % 12) + 1>>

\* the number of the last day of the month tm = <<year, month>>
LastDayOf(tm) ==
    CHOOSE d \in 28..31 : FromYmdOpt(tm[1], tm[2], d) # None
                          /\ FromYmdOpt(tm[1], tm[2], d + 1) = None

\* C11: next_date with period month or year returns the last day of the
\* target month when the base is the last day of its month or the target
\* month has fewer days than the base's day of month, and the base's day of
\* month in the target month otherwise.
C11_EndOfMonth ==
    (Called("next_date") /\ LastOp.a.period \in {"Month", "Year"})
        => LET rec == LastOp.a
               base == LastOp.b
               tm == TargetMonth(base, IF rec.period = "Month" THEN rec.count
                                       ELSE 12 * rec.count)
               clamp == \/ base[3] = LastDayOf(<<base[1], base[2]>>)
                        \/ LastDayOf(tm) < base[3]
           IN ret[1] = <<tm[1], tm[2], IF clamp THEN LastDayOf(tm) ELSE base[3]>>

\* C11 happens: 2020-01-31 + 1m returned 2020-02-29, and 2020-02-29 + 1m
\* returned 2020-03-31.
C11_Witness ==
    /\ Len(hist) = 2
    /\ hist[1] = Op("next_date", Recurrence("Month", 1, FALSE), <<2020, 1, 31>>)
    /\ hist[2] = Op("next_date", Recurrence("Month", 1, FALSE), <<2020, 2, 29>>)
    /\ ret = <<(<<2020, 3, 31>>)>>

-----------------------------------------------------------------------------
(* save of src/src/todo.rs: each system call is a step, any of which may  *)
(* fail, and the process may stop between or within them                  *)

\* save is entered: tmpname is computed, nothing is touched yet
SaveBegin ==
    /\ CanCall
    /\ pc' = "save_create"
    /\ cursor' = 0
    /\ ret' = <<>>
    /\ hist' = Append(hist, Op("save", disk[FilePath], FilePath))
    /\ UNCHANGED <<tasks, today, clock, old, origin, disk>>

\* a return of save
SaveReturns(result) ==
    /\ ret' = <<result>>
    /\ pc' = "idle"

\* File::create(&tmpname), with `?`
SaveCreate ==
    /\ pc = "save_create"
    /\ \/ /\ disk' = FileCreate(disk, tmpname(FilePath))
          /\ pc' = "save_write"
          /\ UNCHANGED ret
       \/ /\ SaveReturns("SaveFailed")
          /\ UNCHANGED disk
    /\ UNCHANGED <<tasks, today, clock, hist, old, origin, cursor>>

\* one turn of `for t in tasks`: write!(output, "{}", line) writes the whole
\* line, or writes its first k bytes and fails
SaveWrite ==
    /\ pc = "save_write"
    /\ cursor < Len(tasks)
    /\ \E line \in {SaveLine(tasks[cursor + 1])} :
          \/ /\ disk' = FileWrite(disk, tmpname(FilePath), line)
             /\ cursor' = cursor + 1
             /\ UNCHANGED <<pc, ret>>
          \/ \E k \in 0..(Len(line) - 1) :
                /\ disk' = FileWrite(disk, tmpname(FilePath), UpTo(line, k))
                /\ SaveReturns("SaveFailed")
                /\ UNCHANGED cursor
    /\ UNCHANGED <<tasks, today, clock, hist, old, origin>>

\* fs::rename(tmpname, filename) after the loop
SaveRename ==
    /\ pc = "save_write"
    /\ cursor = Len(tasks)
    /\ \/ /\ disk' = FileRename(disk, tmpname(FilePath), FilePath)
          /\ SaveReturns("Ok")
       \/ /\ SaveReturns("SaveFailed")
          /\ UNCHANGED disk
    /\ UNCHANGED <<tasks, today, clock, hist, old, origin, cursor>>

\* the process stops between two system calls of save
SaveCrash ==
    /\ pc \in {"save_create", "save_write"}
    /\ pc' = "crashed"
    /\ UNCHANGED <<tasks, today, clock, hist, old, ret, origin, disk, cursor>>

\* the process stops within a write, k bytes of the line written
SaveCrashInWrite ==
    /\ pc = "save_write"
    /\ cursor < Len(tasks)
    /\ \E line \in {SaveLine(tasks[cursor + 1])} :
          \E k \in 1..(Len(line) - 1) :
             disk' = FileWrite(disk, tmpname(FilePath), UpTo(line, k))
    /\ pc' = "crashed"
    /\ UNCHANGED <<tasks, today, clock, hist, old, ret, origin, cursor>>

\* what the file at the path holds before a session: nothing, or a saved list
PriorFiles == {None} \cup {Some(FileOf(<<Parse(LinePlain, Today0)>>)), Some(<<>>)}

InitSave ==
    /\ today = Today0
    /\ clock = Clock0
    /\ \E lines \in TaskLists \cup {<<>>} :
          tasks = [i \in 1..Len(lines) |-> from_str(lines[i], today)]
    /\ origin = tasks
    /\ old = tasks
    /\ hist = <<>>
    /\ ret = <<>>
    /\ pc = "idle"
    /\ \E prior \in PriorFiles : disk = [NoFiles EXCEPT ![FilePath] = prior]
    /\ cursor = 0

NextSave ==
    \/ SaveBegin
    \/ SaveCreate
    \/ SaveWrite
    \/ SaveRename
    \/ SaveCrash
    \/ SaveCrashInWrite

SpecSave == InitSave /\ [][NextSave]_vars

\* C12: from the entry of save on, whatever fails and wherever the process
\* stops, the file at the path holds its complete prior contents or the
\* complete new contents, one formatted task per line; when save returned an
\* error the file holds its prior contents.
C12_SaveAtomic ==
    Called("save")
        => /\ disk[FilePath] \in {LastOp.a, Some(FileOf(tasks))}
           /\ (pc = "idle" /\ ret = <<"SaveFailed">>) => disk[FilePath] = LastOp.a

\* C12 happens: the process stopped within the write of the second task of a
\* list, the temporary file holding the first line and a part of the second,
\* and the file at the path holds its prior contents, which are not the new ones.
C12_Witness ==
    /\ Called("save")
    /\ pc = "crashed"
    /\ cursor = 1
    /\ Len(tasks) = 2
    /\ Len(Unwrap(disk[tmpname(FilePath)])) > Len(SaveLine(tasks[1]))
    /\ disk[FilePath] = LastOp.a
    /\ IsSome(LastOp.a)
    /\ LastOp.a # Some(FileOf(tasks))

-----------------------------------------------------------------------------
(* Properties of the bulk operations of the edit engine, checked under Spec *)

BulkOps == {"done", "undone", "remove", "edit", "start", "stop"}

\* C13: every bulk operation returns one boolean per ID of ids when ids is
\* given, and one per task of the list otherwise, the boolean of every ID
\* that is out of range being false; so it is for every list, the empty one too.
C13_OneBoolPerId ==
    (hist # <<>> /\ LastOp.name \in BulkOps /\ TaskIdle)
        => LET ids == LastOp.a
           IN IF IsNone(ids) THEN Len(ret) = Len(old)
              ELSE /\ Len(ret) = Len(Unwrap(ids))
                   /\ \A k \in 1..Len(ret) : Unwrap(ids)[k] >= Len(old) => ~ret[k]

Removed(ids, n) ==
    IF IsNone(ids) THEN 1..n
    ELSE {i \in 1..n : \E k \in 1..Len(Unwrap(ids)) : Unwrap(ids)[k] = i - 1}

\* C15: after every operation of a session a task that is still in the list
\* has the ID it had: add leaves every old task at its index, remove leaves
\* every task it does not take out at its index, and the other operations
\* change tasks in place, the list keeping its length.
C15_IdsStable ==
    (hist # <<>> /\ TaskIdle)
        => IF LastOp.name = "add"
           THEN \A i \in 1..Len(old) : i <= Len(tasks) /\ tasks[i] = old[i]
           ELSE IF LastOp.name = "remove"
           THEN \A i \in (1..Len(old)) \ Removed(LastOp.a, Len(old)) :
                    i <= Len(tasks) /\ tasks[i] = old[i]
           ELSE Len(tasks) = Len(old)

-----------------------------------------------------------------------------
(* The timer of src/src/timer.rs on one task, the clock moving between calls *)

\* "foo tmr:50 spent:10"
LineTimerOn == <<"f", "o", "o", " ", "t", "m", "r", ":", "5", "0", " ", "s", "p", "e", "n", "t", ":", "1", "0">>

\* "foo tmr:off spent:3"
LineTimerOff == <<"f", "o", "o", " ", "t", "m", "r", ":", "o", "f", "f", " ", "s", "p", "e", "n", "t", ":", "3">>

\* "foo tmr:abc"
LineTimerWord == <<"f", "o", "o", " ", "t", "m", "r", ":", "a", "b", "c">>

\* "foo tmr:90 spent:zz"
LineSpentWord == <<"f", "o", "o", " ", "t", "m", "r", ":", "9", "0", " ", "s", "p", "e", "n", "t", ":", "z", "z">>

TimerLines ==
    {LinePlain, LineDoneBare, LineTimerOn, LineTimerOff, LineTimerWord, LineSpentWord}

\* timer::start_timer, wait seconds after the last reading of the clock
TimerStart(wait) ==
    /\ CanCall
    /\ clock' = clock + wait
    /\ \E res \in {start_timer(tasks[1], clock + wait)} :
          /\ tasks' = <<res.t>>
          /\ ret' = <<res.r>>
    /\ hist' = Append(hist, Op("start_timer", wait, clock + wait))
    /\ old' = tasks
    /\ UNCHANGED <<today, origin, pc, disk, cursor>>

\* timer::stop_timer, wait seconds after the last reading of the clock
TimerStop(wait) ==
    /\ CanCall
    /\ clock' = clock + wait
    /\ \E res \in {stop_timer(tasks[1], clock + wait)} :
          /\ tasks' = <<res.t>>
          /\ ret' = <<res.r>>
    /\ hist' = Append(hist, Op("stop_timer", wait, clock + wait))
    /\ old' = tasks
    /\ UNCHANGED <<today, origin, pc, disk, cursor>>

InitTimer ==
    /\ today = Today0
    /\ clock = Clock0
    /\ \E line \in TimerLines : tasks = <<Parse(line, today)>>
    /\ origin = tasks
    /\ old = tasks
    /\ hist = <<>>
    /\ ret = <<>>
    /\ pc = "idle"
    /\ disk = NoFiles
    /\ cursor = 0

NextTimer ==
    \/ \E wait \in Waits : TimerStart(wait)
    \/ \E wait \in Waits : TimerStop(wait)

SpecTimer == InitTimer /\ [][NextTimer]_vars

\* the timer of t is running: it has the tag tmr with a value other than off
Running(t) == MapHas(t.tags, TIMER_TAG) /\ t.tags[TIMER_TAG] # TIMER_OFF

\* the seconds in the tag spent of t, none when it has no such number
SpentOf(t) ==
    IF MapHas(t.tags, SPENT_TAG) /\ ParseI64(t.tags[SPENT_TAG]).ok
    THEN ParseI64(t.tags[SPENT_TAG]).n ELSE 0

\* C16: start returns true exactly when the task is not finished and its
\* timer is not running, and then the timer is running; stop returns true
\* exactly when the timer is running, and then tmr is off and spent is the
\* previous spent plus the seconds since the start, if that is not negative;
\* a call that returns false changes nothing.
C16_StartStop ==
    /\ Called("start_timer")
           => /\ ret[1] <=> (~old[1].finished /\ ~Running(old[1]))
              /\ ret[1] => Running(tasks[1])
              /\ ~ret[1] => tasks = old
    /\ Called("stop_timer")
           => /\ ret[1] <=> Running(old[1])
              /\ ret[1] =>
                    LET elapsed == LastOp.b - ParseI64(old[1].tags[TIMER_TAG]).n
                    IN /\ tasks[1].tags[TIMER_TAG] = TIMER_OFF
                       /\ tasks[1].tags[SPENT_TAG] =
                              FormatInt(SpentOf(old[1]) + IF elapsed > 0 THEN elapsed ELSE 0)
              /\ ~ret[1] => tasks = old

\* ---------------------------------------------------------------------
\* tfilter.rs
\* ---------------------------------------------------------------------

INCLUDE_NONE == 0 - 9999998

NONE_TITLE == <<"n", "o", "n", "e">>

ANY_TITLE == <<"a", "n", "y">>

\* enum ItemRange
RangeNone == [kind |-> "None", lo |-> 0, hi |-> 0, list |-> <<>>]

RangeOne(i) == [kind |-> "One", lo |-> i, hi |-> i, list |-> <<>>]

RangeOf(min, max) == [kind |-> "Range", lo |-> min, hi |-> max, list |-> <<>>]

RangeList(lst) == [kind |-> "List", lo |-> 0, hi |-> 0, list |-> lst]

\* struct DateRange with its struct ValueRange
DateRange(span, low, high) == [span |-> span, days |-> [low |-> low, high |-> high]]

\* struct Priority of tfilter
FilterPriority(span, value) == [span |-> span, value |-> value]

EmptyTagFilter == [projects |-> <<>>, contexts |-> <<>>, tags |-> <<>>, hashtags |-> <<>>]

\* impl Default for tfilter::Conf
FilterDefaultConf ==
    [range |-> RangeNone,
     regex |-> None,
     use_regex |-> FALSE,
     include |-> EmptyTagFilter,
     exclude |-> EmptyTagFilter,
     all |-> "Active",
     due |-> None,
     thr |-> None,
     rec |-> None,
     pri |-> None,
     tmr |-> None,
     created |-> None,
     finished |-> None]

\* chrono: days from 1970-01-01 to dt
DayNumber(dt) ==
    LET y == IF dt[2] <= 2 THEN dt[1] - 1 ELSE dt[1]
        era == y \div 400
        yoe == y - era * 400
        mp == IF dt[2] > 2 THEN dt[2] - 3 ELSE dt[2] + 9
        doy == (153 * mp + 2) \div 5 + dt[3] - 1
        doe == yoe * 365 + yoe \div 4 - yoe \div 100 + doy
    IN era * 146097 + doe - 719468

\* (*d - today).num_days()
NumDays(d, td) == DayNumber(d) - DayNumber(td)

\* str::trim_start_matches / trim_end_matches / trim_matches of one char
RECURSIVE TrimStartMatches(_, _)
TrimStartMatches(s, c) ==
    IF s # <<>> /\ Head(s) = c THEN TrimStartMatches(Tail(s), c) ELSE s

RECURSIVE TrimEndMatches(_, _)
TrimEndMatches(s, c) ==
    IF s # <<>> /\ s[Len(s)] = c THEN TrimEndMatches(SubSeq(s, 1, Len(s) - 1), c) ELSE s

str_matches(orig, patt) ==
    IF StartsWith(patt, <<"*">>) /\ EndsWith(patt, <<"*">>)
    THEN Find(orig, TrimEndMatches(TrimStartMatches(patt, "*"), "*")) >= 0
    ELSE IF StartsWith(patt, <<"*">>)
    THEN EndsWith(orig, TrimStartMatches(patt, "*"))
    ELSE IF EndsWith(patt, <<"*">>)
    THEN StartsWith(orig, TrimEndMatches(patt, "*"))
    ELSE orig = patt

vec_match(task_list, flt) ==
    \/ flt = <<>>
    \/ \E i \in 1..Len(flt) :
           \/ flt[i] = NONE_TITLE /\ task_list = <<>>
           \/ flt[i] = ANY_TITLE /\ task_list # <<>>
    \/ \E i \in 1..Len(task_list), j \in 1..Len(flt) :
           str_matches(Fold(task_list[i]), Fold(flt[j]))

is_status_ok(t, status) ==
    ~((status = "Active" /\ t.finished) \/ (status = "Done" /\ ~t.finished))

\* the first match of filter: the IDs of the range whose status is right
RECURSIVE RangeIds(_, _, _, _)
RangeIds(ts, c, first, max) ==
    IF first > max \/ first >= Len(ts) THEN <<>>
    ELSE (IF is_status_ok(ts[first + 1], c.all) THEN <<first>> ELSE <<>>)
             \o RangeIds(ts, c, first + 1, max)

FilterRange(ts, c) ==
    IF c.range.kind = "One"
    THEN IF c.range.lo < Len(ts) /\ is_status_ok(ts[c.range.lo + 1], c.all)
         THEN <<c.range.lo>> ELSE <<>>
    ELSE IF c.range.kind = "Range"
    THEN RangeIds(ts, c, c.range.lo, c.range.hi)
    ELSE IF c.range.kind = "List"
    THEN SelectSeq(c.range.list,
                   LAMBDA idx : idx < Len(ts) /\ is_status_ok(ts[idx + 1], c.all))
    ELSE SelectSeq(make_id_vec(Len(ts)), LAMBDA idx : is_status_ok(ts[idx + 1], c.all))

filter_empty(ts, v, c) ==
    IF c.all = "All" THEN v
    ELSE SelectSeq(v, LAMBDA idx :
             LET empty == ts[idx + 1].subject = <<>>
             IN (empty /\ c.all = "Empty") \/ (~empty /\ c.all # "Empty"))

\* regex holds a literal word: (?i)word matches a subject exactly when the
\* lowercase subject contains the lowercase word, so both branches agree
filter_regex(ts, v, c) ==
    IF IsNone(c.regex) THEN v
    ELSE IF c.use_regex
    THEN SelectSeq(v, LAMBDA idx :
             idx < Len(ts) /\ Find(Fold(ts[idx + 1].subject), Fold(Unwrap(c.regex))) >= 0)
    ELSE SelectSeq(v, LAMBDA idx :
             Find(Fold(ts[idx + 1].subject), Fold(Unwrap(c.regex))) >= 0)

\* the body shared by filter_context, filter_project, filter_tag, filter_hashtag
FilterList(v, incl, excl, ListOf(_)) ==
    IF incl = <<>> /\ excl = <<>> THEN v
    ELSE SelectSeq(v, LAMBDA idx :
             /\ ~(excl # <<>> /\ vec_match(ListOf(idx), excl))
             /\ (incl = <<>> \/ vec_match(ListOf(idx), incl)))

filter_context(ts, v, c) ==
    FilterList(v, c.include.contexts, c.exclude.contexts, LAMBDA idx : ts[idx + 1].contexts)

filter_project(ts, v, c) ==
    FilterList(v, c.include.projects, c.exclude.projects, LAMBDA idx : ts[idx + 1].projects)

\* the keys of a HashMap in some order; vec_match does not depend on the order
RECURSIVE KeyList(_)
KeyList(keys) ==
    IF keys = {} THEN <<>>
    ELSE LET k == CHOOSE x \in keys : TRUE IN <<k>> \o KeyList(keys \ {k})

filter_tag(ts, v, c) ==
    FilterList(v, c.include.tags, c.exclude.tags,
               LAMBDA idx : KeyList(DOMAIN ts[idx + 1].tags))

filter_hashtag(ts, v, c) ==
    FilterList(v, c.include.hashtags, c.exclude.hashtags, LAMBDA idx : ts[idx + 1].hashtags)

filter_priority(ts, v, c) ==
    IF IsNone(c.pri) THEN v
    ELSE LET p == Unwrap(c.pri)
         IN SelectSeq(v, LAMBDA idx :
                LET pr == ts[idx + 1].priority
                IN CASE p.span = "None" -> pr = NO_PRIORITY
                     [] p.span = "Equal" -> p.value = pr
                     [] p.span = "Lower" -> p.value <= pr
                     [] p.span = "Higher" -> p.value >= pr
                     [] p.span = "Any" -> pr < NO_PRIORITY
                     [] OTHER -> FALSE)

filter_recurrence(ts, v, c) ==
    IF IsNone(c.rec) THEN v
    ELSE SelectSeq(v, LAMBDA idx :
             CASE Unwrap(c.rec).span = "None" -> IsNone(ts[idx + 1].recurrence)
               [] Unwrap(c.rec).span = "Any" -> IsSome(ts[idx + 1].recurrence)
               [] OTHER -> FALSE)

date_in_range(date, range, td) ==
    LET diff == NumDays(Unwrap(date), td)
        low == range.days.low
        high == range.days.high
    IN CASE range.span = "None" -> IsNone(date)
         [] range.span = "Any" -> IsSome(date)
         [] range.span = "Higher" ->
                IF IsSome(date) THEN diff > high ELSE low = INCLUDE_NONE
         [] range.span = "Lower" ->
                IF IsSome(date) THEN diff < low ELSE high = INCLUDE_NONE
         [] range.span = "Range" ->
                IF IsSome(date)
                THEN IF low = INCLUDE_NONE /\ high = INCLUDE_NONE THEN FALSE
                     ELSE IF low = INCLUDE_NONE THEN diff <= high
                     ELSE IF high = INCLUDE_NONE THEN diff >= low
                     ELSE diff >= low /\ diff <= high
                ELSE low = INCLUDE_NONE \/ high = INCLUDE_NONE
         [] OTHER -> FALSE

filter_due(ts, v, c, td) ==
    IF IsNone(c.due) THEN v
    ELSE SelectSeq(v, LAMBDA idx : date_in_range(ts[idx + 1].due_date, Unwrap(c.due), td))

filter_created(ts, v, c, td) ==
    IF IsNone(c.created) THEN v
    ELSE SelectSeq(v, LAMBDA idx :
             date_in_range(ts[idx + 1].create_date, Unwrap(c.created), td))

filter_finished(ts, v, c, td) ==
    IF IsNone(c.finished) THEN v
    ELSE SelectSeq(v, LAMBDA idx :
             date_in_range(ts[idx + 1].finish_date, Unwrap(c.finished), td))

filter_threshold(ts, v, c, td) ==
    LET flt == IF IsSome(c.thr) THEN Unwrap(c.thr)
               ELSE DateRange("Range", INCLUDE_NONE, 0)
    IN SelectSeq(v, LAMBDA idx :
           c.all = "All" \/ date_in_range(ts[idx + 1].threshold_date, flt, td))

filter_timer(ts, v, c) ==
    IF IsNone(c.tmr) THEN v
    ELSE SelectSeq(v, LAMBDA idx :
             CASE Unwrap(c.tmr).span = "None" -> ~is_timer_on(ts[idx + 1])
               [] Unwrap(c.tmr).span = "Active" -> is_timer_on(ts[idx + 1])
               [] OTHER -> FALSE)

\* tfilter::filter; td is chrono::Local::now().date_naive()
filter(ts, c, td) ==
    LET v0 == FilterRange(ts, c)
        v1 == filter_empty(ts, v0, c)
        v2 == filter_regex(ts, v1, c)
        v3 == filter_tag(ts, v2, c)
        v4 == filter_hashtag(ts, v3, c)
        v5 == filter_project(ts, v4, c)
        v6 == filter_context(ts, v5, c)
        v7 == filter_priority(ts, v6, c)
        v8 == filter_recurrence(ts, v7, c)
        v9 == filter_due(ts, v8, c, td)
        v10 == filter_created(ts, v9, c, td)
        v11 == filter_finished(ts, v10, c, td)
        v12 == filter_threshold(ts, v11, c, td)
    IN filter_timer(ts, v12, c)

-----------------------------------------------------------------------------
(* tfilter::filter over a list *)

\* "call mother +family @parents"
LineMother == <<"c", "a", "l", "l", " ", "m", "o", "t", "h", "e", "r", " ", "+", "f", "a", "m", "i", "l", "y", " ", "@", "p", "a", "r", "e", "n", "t", "s">>

\* "x (C) 2020-01-05 2020-01-01 car service +car @repair"
LineCarDone == <<"x", " ", "(", "C", ")", " ", "2", "0", "2", "0", "-", "0", "1", "-", "0", "5", " ", "2", "0", "2", "0", "-", "0", "1", "-", "0", "1", " ", "c", "a", "r", " ", "s", "e", "r", "v", "i", "c", "e", " ", "+", "c", "a", "r", " ", "@", "r", "e", "p", "a", "i", "r">>

\* "(B) fix car +Car @repair due:2020-03-01 t:2020-02-05"
LineCarAhead == <<"(", "B", ")", " ", "f", "i", "x", " ", "c", "a", "r", " ", "+", "C", "a", "r", " ", "@", "r", "e", "p", "a", "i", "r", " ", "d", "u", "e", ":", "2", "0", "2", "0", "-", "0", "3", "-", "0", "1", " ", "t", ":", "2", "0", "2", "0", "-", "0", "2", "-", "0", "5">>

\* "(A) art lesson +Family @Kids due:2020-02-10 rec:1w t:2020-02-02"
LineArtToday == <<"(", "A", ")", " ", "a", "r", "t", " ", "l", "e", "s", "s", "o", "n", " ", "+", "F", "a", "m", "i", "l", "y", " ", "@", "K", "i", "d", "s", " ", "d", "u", "e", ":", "2", "0", "2", "0", "-", "0", "2", "-", "1", "0", " ", "r", "e", "c", ":", "1", "w", " ", "t", ":", "2", "0", "2", "0", "-", "0", "2", "-", "0", "2">>

\* "hockey game #fun t:2020-01-30"
LineGamePast == <<"h", "o", "c", "k", "e", "y", " ", "g", "a", "m", "e", " ", "#", "f", "u", "n", " ", "t", ":", "2", "0", "2", "0", "-", "0", "1", "-", "3", "0">>

\* "(Z) rest tmr:50"
LineZed == <<"(", "Z", ")", " ", "r", "e", "s", "t", " ", "t", "m", "r", ":", "5", "0">>

\* "x 2020-01-05 water plants rec:1d"
LineDoneRec == <<"x", " ", "2", "0", "2", "0", "-", "0", "1", "-", "0", "5", " ", "w", "a", "t", "e", "r", " ", "p", "l", "a", "n", "t", "s", " ", "r", "e", "c", ":", "1", "d">>

FilterLists ==
    {<<LineMother, LineCarDone, LineCarAhead, LineArtToday, LineGamePast, LineZed>>,
     <<LineGamePast, LineCarAhead>>,
     <<LineDoneRec, LineArtToday, LineMother>>,
     <<>>}

FilterStatuses == {"Active", "All", "Done", "Empty"}

PriSpans == {"None", "Equal", "Lower", "Higher", "Any", "Range"}

PriValues == {0, 1, 2, 25, NO_PRIORITY}

PriConfs ==
    {[FilterDefaultConf EXCEPT !.all = s, !.pri = Some(FilterPriority(span, value))] :
        s \in {"Active", "All"}, span \in PriSpans, value \in PriValues}

ThrRanges ==
    {DateRange("Any", 0, 0), DateRange("None", 0, 0),
     DateRange("Range", 0, 3), DateRange("Range", INCLUDE_NONE, INCLUDE_NONE),
     DateRange("Higher", INCLUDE_NONE, 0), DateRange("Lower", 0, INCLUDE_NONE)}

ThrConfs ==
    {[FilterDefaultConf EXCEPT !.all = s, !.thr = o] :
        s \in FilterStatuses, o \in {None} \cup {Some(r) : r \in ThrRanges}}

OtherConfs ==
    {[FilterDefaultConf EXCEPT !.range = RangeOne(1), !.all = "Done"],
     [FilterDefaultConf EXCEPT !.range = RangeOne(9)],
     [FilterDefaultConf EXCEPT !.range = RangeOf(1, 3), !.thr = Some(DateRange("Any", 0, 0))],
     [FilterDefaultConf EXCEPT !.range = RangeList(<<3, 0, 7>>), !.pri = Some(FilterPriority("Lower", 0))],
     [FilterDefaultConf EXCEPT !.regex = Some(<<"C", "A", "R">>), !.all = "All"],
     [FilterDefaultConf EXCEPT !.regex = Some(<<"c", "a", "r">>), !.use_regex = TRUE,
                               !.pri = Some(FilterPriority("Higher", 1))],
     [FilterDefaultConf EXCEPT !.include = [EmptyTagFilter EXCEPT !.projects = <<<<"f", "a", "m", "*">>>>],
                               !.exclude = [EmptyTagFilter EXCEPT !.contexts = <<<<"k", "i", "d", "s">>>>]],
     [FilterDefaultConf EXCEPT !.include = [EmptyTagFilter EXCEPT !.tags = <<<<"d", "u", "e">>>>,
                                                                   !.hashtags = <<NONE_TITLE>>],
                               !.pri = Some(FilterPriority("Any", 0))],
     [FilterDefaultConf EXCEPT !.rec = Some([span |-> "Any"]), !.due = Some(DateRange("Range", 0, 30))],
     [FilterDefaultConf EXCEPT !.tmr = Some([span |-> "Active", value |-> 0]), !.all = "All",
                               !.created = Some(DateRange("None", 0, 0)),
                               !.finished = Some(DateRange("None", 0, 0))]}

DueRanges ==
    {DateRange("Range", 0, 30), DateRange("Range", 8, 8), DateRange("Range", 9, 27),
     DateRange("Range", INCLUDE_NONE, 8), DateRange("Range", 28, INCLUDE_NONE),
     DateRange("Range", INCLUDE_NONE, INCLUDE_NONE), DateRange("Range", 0 - 5, 7)}

DueConfs ==
    {[FilterDefaultConf EXCEPT !.all = s, !.due = Some(r)] :
        s \in {"Active", "All"}, r \in DueRanges}

FilterConfs == PriConfs \cup ThrConfs \cup DueConfs \cup OtherConfs

\* let ids = tfilter::filter(&tasks, &c)
Filter(c) ==
    /\ CanCall
    /\ \E res \in {filter(tasks, c, today)} : ret' = res
    /\ hist' = Append(hist, Op("filter", c, today))
    /\ old' = tasks
    /\ UNCHANGED <<tasks, today, clock, origin, pc, disk, cursor>>

InitFilter ==
    /\ today = Today0
    /\ clock = Clock0
    /\ \E list \in FilterLists : tasks = [i \in 1..Len(list) |-> Parse(list[i], today)]
    /\ origin = tasks
    /\ old = tasks
    /\ hist = <<>>
    /\ ret = <<>>
    /\ pc = "idle"
    /\ disk = NoFiles
    /\ cursor = 0

NextFilter == \E c \in FilterConfs : Filter(c)

SpecFilter == InitFilter /\ [][NextFilter]_vars

\* the set of the elements of a vector
Elements(v) == {v[i] : i \in 1..Len(v)}

\* what a priority predicate selects, by its span
PriorityWanted(p, pr) ==
    CASE p.span = "Higher" -> pr <= p.value /\ pr # NO_PRIORITY
      [] p.span = "Lower" -> pr >= p.value
      [] p.span = "Equal" -> pr = p.value
      [] p.span = "Any" -> pr # NO_PRIORITY
      [] p.span = "None" -> pr = NO_PRIORITY

\* C17: filter with a priority predicate returns exactly the tasks, among
\* those the rest of the Conf selects, whose priority is the value or more
\* important and is set (Higher), is the value or less important or is not
\* set (Lower), is the value (Equal), is set (Any), is not set (None).
C17_PrioritySpans ==
    (Called("filter") /\ IsSome(LastOp.a.pri)
        /\ Unwrap(LastOp.a.pri).span \in {"Higher", "Lower", "Equal", "Any", "None"})
        => ret = SelectSeq(filter(tasks, [LastOp.a EXCEPT !.pri = None], today),
                           LAMBDA idx : PriorityWanted(Unwrap(LastOp.a.pri), tasks[idx + 1].priority))

\* the IDs the Conf selects when its threshold predicate is left out: a task
\* either has a threshold date or has none
ThresholdCandidates(c) ==
    Elements(filter(tasks, [c EXCEPT !.thr = Some(DateRange("Any", 0, 0))], today))
        \cup Elements(filter(tasks, [c EXCEPT !.thr = Some(DateRange("None", 0, 0))], today))

\* C18: with a threshold predicate set, filter returns only tasks whose
\* threshold date satisfies it, whatever the status, All included; without
\* one and with a status other than All, it hides exactly the tasks whose
\* threshold date is after today.
C18_Threshold ==
    Called("filter") =>
        /\ IsSome(LastOp.a.thr) =>
               \A idx \in Elements(ret) :
                   date_in_range(tasks[idx + 1].threshold_date, Unwrap(LastOp.a.thr), today)
        /\ (IsNone(LastOp.a.thr) /\ LastOp.a.all # "All") =>
               Elements(ret) =
                   {idx \in ThresholdCandidates(LastOp.a) :
                       \/ IsNone(tasks[idx + 1].threshold_date)
                       \/ ~DateLt(today, Unwrap(tasks[idx + 1].threshold_date))}

\* ---------------------------------------------------------------------
\* tsort.rs
\* ---------------------------------------------------------------------

\* the printable ASCII characters in the order of their codes, without the
\* double quote, the backslash and the grave accent, which no input holds
Ascii == <<" ", "!", "#", "$", "%", "&", "'", "(", ")", "*", "+", ",", "-", ".", "/", "0", "1", "2", "3", "4", "5", "6", "7", "8", "9", ":", ";", "<", "=", ">", "?", "@", "A", "B", "C", "D", "E", "F", "G", "H", "I", "J", "K", "L", "M", "N", "O", "P", "Q", "R", "S", "T", "U", "V", "W", "X", "Y", "Z", "[", "]", "^", "_", "a", "b", "c", "d", "e", "f", "g", "h", "i", "j", "k", "l", "m", "n", "o", "p", "q", "r", "s", "t", "u", "v", "w", "x", "y", "z", "{", "|", "}", "~">>

\* Ord::cmp of two integers
IntCmp(a, b) == IF a < b THEN "Less" ELSE IF a > b THEN "Greater" ELSE "Equal"

\* Ord::cmp of two strings: byte by byte, a proper prefix is less
RECURSIVE StrCmp(_, _)
StrCmp(a, b) ==
    IF a = <<>> /\ b = <<>> THEN "Equal"
    ELSE IF a = <<>> THEN "Less"
    ELSE IF b = <<>> THEN "Greater"
    ELSE IF Head(a) # Head(b) THEN IntCmp(IndexOf(Ascii, Head(a)), IndexOf(Ascii, Head(b)))
    ELSE StrCmp(Tail(a), Tail(b))

\* the loop of cmp_opt_arrays over the common length, from index idx
RECURSIVE ArraysLoop(_, _, _, _)
ArraysLoop(a1, a2, idx, max) ==
    IF idx > max THEN "Equal"
    ELSE LET ord == StrCmp(Fold(a1[idx]), Fold(a2[idx]))
         IN IF ord # "Equal" THEN ord ELSE ArraysLoop(a1, a2, idx + 1, max)

cmp_opt_arrays(a1, a2) ==
    IF a1 = <<>> /\ a2 # <<>> THEN "Greater"
    ELSE IF a1 # <<>> /\ a2 = <<>> THEN "Less"
    ELSE IF a1 = <<>> /\ a2 = <<>> THEN "Equal"
    ELSE LET max == IF Len(a1) > Len(a2) THEN Len(a2) ELSE Len(a1)
             ord == ArraysLoop(a1, a2, 1, max)
         IN IF ord = "Equal" THEN IntCmp(Len(a1), Len(a2)) ELSE ord

\* impl Default for tsort::Conf
SortDefaultConf == [fields |-> None, rev |-> FALSE]

\* the key of the field done
DoneKey(t) == IF IsSome(t.recurrence) THEN 1 ELSE IF t.finished THEN 2 ELSE 0

\* one arm of the match on a field name
FieldCmp(f, ta, tb) ==
    CASE f \in {<<"p", "r", "i">>, <<"p", "r", "i", "o", "r", "i", "t", "y">>} -> IntCmp(ta.priority, tb.priority)
      [] f \in {<<"d", "u", "e">>} -> cmp_opt_dates(ta.due_date, tb.due_date)
      [] f \in {<<"t", "h", "r">>} -> cmp_opt_dates(ta.threshold_date, tb.threshold_date)
      [] f \in {<<"c", "o", "m", "p", "l", "e", "t", "e", "d">>, <<"f", "i", "n", "i", "s", "h", "e", "d">>} -> cmp_opt_dates(ta.finish_date, tb.finish_date)
      [] f \in {<<"c", "r", "e", "a", "t", "e", "d">>, <<"c", "r", "e", "a", "t", "e">>} -> cmp_opt_dates(ta.create_date, tb.create_date)
      [] f \in {<<"s", "u", "b", "j", "e", "c", "t">>, <<"t", "e", "x", "t">>, <<"s", "u", "b", "j">>} -> StrCmp(ta.subject, tb.subject)
      [] f \in {<<"d", "o", "n", "e">>} -> IntCmp(DoneKey(ta), DoneKey(tb))
      [] f \in {<<"p", "r", "o", "j">>, <<"p", "r", "o", "j", "e", "c", "t">>} -> cmp_opt_arrays(ta.projects, tb.projects)
      [] f \in {<<"c", "t", "x">>, <<"c", "o", "n", "t", "e", "x", "t">>} -> cmp_opt_arrays(ta.contexts, tb.contexts)
      [] OTHER -> "Equal"

\* the loop over the fields: the first field that tells the two tasks apart
RECURSIVE FieldsCmp(_, _, _, _)
FieldsCmp(fields, i, ta, tb) ==
    IF i > Len(fields) THEN "Equal"
    ELSE LET res == FieldCmp(fields[i], ta, tb)
         IN IF res # "Equal" THEN res ELSE FieldsCmp(fields, i + 1, ta, tb)

\* the closure given to sort_by
SortCmp(todos, fields, a, b) ==
    IF a >= Len(todos) /\ b >= Len(todos) THEN "Equal"
    ELSE IF a >= Len(todos) THEN "Greater"
    ELSE IF b >= Len(todos) THEN "Less"
    ELSE FieldsCmp(fields, 1, todos[a + 1], todos[b + 1])

\* slice::sort_by is stable: each ID, taken in input order, goes before the
\* first ID already placed that is greater
InsertSorted(todos, fields, sorted, x) ==
    LET gt == {i \in 1..Len(sorted) : SortCmp(todos, fields, sorted[i], x) = "Greater"}
    IN IF gt = {} THEN Append(sorted, x)
       ELSE SubSeq(sorted, 1, SetMin(gt) - 1) \o <<x>> \o SubSeq(sorted, SetMin(gt), Len(sorted))

RECURSIVE SortBy(_, _, _, _, _)
SortBy(todos, fields, ids, i, sorted) ==
    IF i > Len(ids) THEN sorted
    ELSE SortBy(todos, fields, ids, i + 1, InsertSorted(todos, fields, sorted, ids[i]))

Reverse(s) == [i \in 1..Len(s) |-> s[Len(s) + 1 - i]]

\* low.split(|c| c == ',' || c == ':')
SplitFields(low) == Split([i \in 1..Len(low) |-> IF low[i] = ":" THEN "," ELSE low[i]], ",")

\* tsort::sort; the result is the vector ids after the call
sort(ids, todos, c) ==
    IF IsNone(c.fields) /\ ~c.rev THEN ids
    ELSE LET fields == IF IsNone(c.fields) THEN <<>> ELSE SplitFields(Fold(Unwrap(c.fields)))
             sorted == IF fields # <<>> THEN SortBy(todos, fields, ids, 1, <<>>) ELSE ids
         IN IF c.rev THEN Reverse(sorted) ELSE sorted

-----------------------------------------------------------------------------
(* tsort::sort over vectors of IDs *)

SortFields ==
    {None,
     Some(<<"p", "r", "i">>),
     Some(<<"p", "r", "i", "o", "r", "i", "t", "y">>),
     Some(<<"d", "u", "e">>),
     Some(<<"t", "h", "r">>),
     Some(<<"d", "o", "n", "e">>),
     Some(<<"s", "u", "b", "j", "e", "c", "t">>),
     Some(<<"p", "r", "o", "j", ",", "c", "t", "x">>),
     Some(<<"d", "o", "n", "e", ":", "p", "r", "o", "j">>),
     Some(<<"P", "R", "I", ",", "D", "u", "e">>),
     Some(<<"b", "o", "g", "u", "s">>),
     Some(<<>>),
     Some(<<"c", "r", "e", "a", "t", "e", "d">>),
     Some(<<"f", "i", "n", "i", "s", "h", "e", "d">>),
     Some(<<"c", "o", "m", "p", "l", "e", "t", "e", "d", ",", "s", "u", "b", "j">>),
     Some(<<"b", "o", "g", "u", "s", ",", "p", "r", "i">>)}

SortConfs == {[fields |-> f, rev |-> r] : f \in SortFields, r \in BOOLEAN}

IdVecs == {<<12, 0, 1, 2, 19, 3, 4, 5, 20>>, <<5, 4, 3, 2, 1, 0>>, <<1, 7, 0>>, <<>>}

\* tsort::sort(&mut ids, &tasks, &c)
Sort(ids, c) ==
    /\ CanCall
    /\ \E res \in {sort(ids, tasks, c)} : ret' = res
    /\ hist' = Append(hist, Op("sort", c, ids))
    /\ old' = tasks
    /\ UNCHANGED <<tasks, today, clock, origin, pc, disk, cursor>>

NextSort == \E ids \in IdVecs, c \in SortConfs : Sort(ids, c)

SpecSort == InitFilter /\ [][NextSort]_vars

\* how many times x occurs in the vector v
Count(v, x) == Cardinality({i \in 1..Len(v) : v[i] = x})

\* C19: sort returns a permutation of its input; without rev every
\* out-of-range ID comes after every in-range ID and two IDs that compare
\* equal on all listed fields keep their input order; with rev the result
\* is the reverse of the result without rev.
C19_SortStable ==
    Called("sort") =>
        LET ids == LastOp.b
            fields == IF IsNone(LastOp.a.fields) THEN <<>>
                      ELSE SplitFields(Fold(Unwrap(LastOp.a.fields)))
        IN /\ Len(ret) = Len(ids)
           /\ \A x \in Elements(ids) : Count(ret, x) = Count(ids, x)
           /\ ~LastOp.a.rev =>
                  /\ \A i, j \in 1..Len(ret) :
                         (i < j /\ ret[j] < Len(tasks)) => ret[i] < Len(tasks)
                  /\ \A i, j \in 1..Len(ids) :
                         (i < j /\ ids[i] # ids[j]
                             /\ SortCmp(tasks, fields, ids[i], ids[j]) = "Equal")
                         => IndexOf(ret, ids[i]) < IndexOf(ret, ids[j])
           /\ LastOp.a.rev =>
                  ret = Reverse(sort(ids, tasks, [LastOp.a EXCEPT !.rev = FALSE]))

-----------------------------------------------------------------------------
(* Task::parse over lines *)

\* "1d call"
LineRelWord == <<"1", "d", " ", "c", "a", "l", "l">>

\* "(j) 2020-01-01 foo"
LineBadPri == <<"(", "j", ")", " ", "2", "0", "2", "0", "-", "0", "1", "-", "0", "1", " ", "f", "o", "o">>

\* "2020-13-01 foo"
LineBadMonth == <<"2", "0", "2", "0", "-", "1", "3", "-", "0", "1", " ", "f", "o", "o">>

\* "x 2020-02-01 foo"
LineDoneOneDate == <<"x", " ", "2", "0", "2", "0", "-", "0", "2", "-", "0", "1", " ", "f", "o", "o">>

\* "x 2020-02-01 2020-01-01 2019-12-31 foo"
LineDoneThreeDates == <<"x", " ", "2", "0", "2", "0", "-", "0", "2", "-", "0", "1", " ", "2", "0", "2", "0", "-", "0", "1", "-", "0", "1", " ", "2", "0", "1", "9", "-", "1", "2", "-", "3", "1", " ", "f", "o", "o">>

\* "2020-01-01 2020-01-02 foo"
LineTwoDates == <<"2", "0", "2", "0", "-", "0", "1", "-", "0", "1", " ", "2", "0", "2", "0", "-", "0", "1", "-", "0", "2", " ", "f", "o", "o">>

\* "x (A) 2020-02-30 foo"
LineDayClamped == <<"x", " ", "(", "A", ")", " ", "2", "0", "2", "0", "-", "0", "2", "-", "3", "0", " ", "f", "o", "o">>

\* "foo 2020-01-01"
LineDateLast == <<"f", "o", "o", " ", "2", "0", "2", "0", "-", "0", "1", "-", "0", "1">>

\* "x 7up 2020-01-01"
LineDoneWord == <<"x", " ", "7", "u", "p", " ", "2", "0", "2", "0", "-", "0", "1", "-", "0", "1">>

\* "x 2020-02-01 2020-00-01 foo"
LineDoneBadSecond == <<"x", " ", "2", "0", "2", "0", "-", "0", "2", "-", "0", "1", " ", "2", "0", "2", "0", "-", "0", "0", "-", "0", "1", " ", "f", "o", "o">>

ParseLines ==
    TaskLines \cup {LineRelWord, LineBadPri, LineBadMonth, LineDoneOneDate, LineDoneThreeDates,
                    LineTwoDates, LineDayClamped, LineDateLast, LineDoneWord, LineDoneBadSecond}

\* let t = Task::parse(line, today)
ParseLine(line) ==
    /\ CanCall
    /\ \E res \in {Parse(line, today)} : tasks' = <<res>>
    /\ hist' = Append(hist, Op("parse", line, today))
    /\ old' = tasks
    /\ ret' = <<>>
    /\ UNCHANGED <<today, clock, origin, pc, disk, cursor>>

InitParse ==
    /\ today = Today0
    /\ clock = Clock0
    /\ tasks = <<>>
    /\ origin = tasks
    /\ old = tasks
    /\ hist = <<>>
    /\ ret = <<>>
    /\ pc = "idle"
    /\ disk = NoFiles
    /\ cursor = 0

NextParse == \E line \in ParseLines : ParseLine(line)

SpecParse == InitParse /\ [][NextParse]_vars

\* w has the form YYYY-MM-DD with a month of the year and a day of 1..31
IsDateForm(w) ==
    /\ Len(w) = 10
    /\ w[5] = "-" /\ w[8] = "-"
    /\ \A i \in {1, 2, 3, 4, 6, 7, 9, 10} : IsDigit(w[i])
    /\ ParseUnsigned(SubSeq(w, 1, 4)) >= 1
    /\ ParseUnsigned(SubSeq(w, 6, 7)) \in 1..12
    /\ ParseUnsigned(SubSeq(w, 9, 10)) \in 1..31

\* the date a word of that form names, its day not after the end of the month
DateOf(w) ==
    LET y == ParseUnsigned(SubSeq(w, 1, 4))
        m == ParseUnsigned(SubSeq(w, 6, 7))
        d == ParseUnsigned(SubSeq(w, 9, 10))
    IN Some(<<y, m, IF d > days_in_month(y, m) THEN days_in_month(y, m) ELSE d>>)

\* the words after the first one
AfterWord(s) == IF Find(s, <<SP>>) < 0 THEN <<>> ELSE Trim(From(s, Find(s, <<SP>>) + 1))

\* the dates and the subject the prefix scan is to give for what follows
\* the completion mark and the priority
PrefixDates(fin, s) ==
    IF ~IsDateForm(next_word(s))
    THEN [finish_date |-> None, create_date |-> None, subject |-> s]
    ELSE IF ~fin
    THEN [finish_date |-> None, create_date |-> DateOf(next_word(s)), subject |-> AfterWord(s)]
    ELSE IF ~IsDateForm(next_word(AfterWord(s)))
    THEN [finish_date |-> DateOf(next_word(s)), create_date |-> None, subject |-> AfterWord(s)]
    ELSE [finish_date |-> DateOf(next_word(s)),
          create_date |-> DateOf(next_word(AfterWord(s))),
          subject |-> AfterWord(AfterWord(s))]

\* the same for a whole line
PrefixOf(line) ==
    LET fin == StartsWith(line, <<"x", SP>>)
        s1 == IF fin THEN Trim(From(line, 2)) ELSE line
    IN IF ~StartsWith(s1, <<"(">>) THEN PrefixDates(fin, s1)
       ELSE IF parse_priority(next_word(s1)) < 0
       THEN [finish_date |-> None, create_date |-> None, subject |-> s1]
       ELSE PrefixDates(fin, Trim(From(s1, Len(next_word(s1)))))

\* C20: parse gives a task for every line and takes as dates only the
\* leading words of the form YYYY-MM-DD, one for an unfinished line, one or
\* two for a finished one; any other leading word ends the scan and stays
\* in the subject with all that follows it.
C20_LeadingDates ==
    Called("parse") =>
        /\ Len(tasks) = 1
        /\ tasks[1].finish_date = PrefixOf(LastOp.a).finish_date
        /\ tasks[1].create_date = PrefixOf(LastOp.a).create_date
        /\ tasks[1].subject = PrefixOf(LastOp.a).subject

-----------------------------------------------------------------------------
(* Properties of remove *)

\* the tasks of ts whose ID is not in idset, in the order of ts
Survivors(ts, idset) ==
    LET keep == {i \in 1..Len(ts) : (i - 1) \notin idset}
    IN [k \in 1..Cardinality(keep) |->
           ts[CHOOSE i \in keep : Cardinality({j \in keep : j <= i}) = k]]

-----------------------------------------------------------------------------
(* Properties of the project and context edits *)

\* some element of list is old, letter case set aside
HoldsCaseless(list, oldw) ==
    \E i \in 1..Len(list) : default_caseless_match_str(list[i], oldw)

\* C22: replace_project and replace_context match the old token without
\* regard to letter case: when the task holds the old project or context in
\* any case and the new one is another name, after the call neither the
\* list nor the subject holds it any more.
C22_CaselessMatch ==
    /\ (Called("replace_project")
           /\ StripSigil(LastOp.a, "+") # <<>>
           /\ ~default_caseless_match_str(StripSigil(LastOp.a, "+"), StripSigil(LastOp.b, "+"))
           /\ HoldsCaseless(old[1].projects, StripSigil(LastOp.a, "+")))
          => /\ ~HoldsCaseless(tasks[1].projects, StripSigil(LastOp.a, "+"))
             /\ ~HoldsCaseless(extract_projects(tasks[1].subject), StripSigil(LastOp.a, "+"))
    /\ (Called("replace_context")
           /\ StripSigil(LastOp.a, "@") # <<>>
           /\ ~default_caseless_match_str(StripSigil(LastOp.a, "@"), StripSigil(LastOp.b, "@"))
           /\ HoldsCaseless(old[1].contexts, StripSigil(LastOp.a, "@")))
          => /\ ~HoldsCaseless(tasks[1].contexts, StripSigil(LastOp.a, "@"))
             /\ ~HoldsCaseless(extract_contexts(tasks[1].subject), StripSigil(LastOp.a, "@"))

-----------------------------------------------------------------------------
(* Properties of the date predicates *)

\* days lies in [low, high], a bound INCLUDE_NONE being no bound
WithinBounds(days, low, high) ==
    /\ (low = INCLUDE_NONE \/ days >= low)
    /\ (high = INCLUDE_NONE \/ days <= high)

\* C23: under a due predicate with span Range, a task with a due date is
\* returned exactly when the days from today to that date lie in
\* [low, high], a bound INCLUDE_NONE being unbounded; a task without a due
\* date is returned when both bounds are INCLUDE_NONE.
C23_RangeBounds ==
    (Called("filter") /\ IsSome(LastOp.a.due) /\ Unwrap(LastOp.a.due).span = "Range")
        => LET r == Unwrap(LastOp.a.due).days
               cands == Elements(filter(tasks, [LastOp.a EXCEPT !.due = None], today))
           IN /\ Elements(ret) \subseteq cands
              /\ \A idx \in cands :
                     IF IsSome(tasks[idx + 1].due_date)
                     THEN idx \in Elements(ret)
                              <=> WithinBounds(NumDays(Unwrap(tasks[idx + 1].due_date), today),
                                               r.low, r.high)
                     ELSE (r.low = INCLUDE_NONE /\ r.high = INCLUDE_NONE)
                              => idx \in Elements(ret)

-----------------------------------------------------------------------------
(* Properties of the sort keys *)

\* the group of a task under the field done: active and not recurring,
\* active and recurring, finished
DoneGroup(t) == IF t.finished THEN 2 ELSE IF IsSome(t.recurrence) THEN 1 ELSE 0

\* C24: sort by the field done alone puts the active tasks that do not
\* recur first, then the active recurring ones, then the finished ones,
\* recurring or not.
C24_DoneGroups ==
    (Called("sort") /\ LastOp.a = [fields |-> Some(<<"d", "o", "n", "e">>), rev |-> FALSE])
        => \A i, j \in 1..Len(ret) :
               (i < j /\ ret[i] < Len(tasks) /\ ret[j] < Len(tasks))
                   => DoneGroup(tasks[ret[i] + 1]) <= DoneGroup(tasks[ret[j] + 1])

-----------------------------------------------------------------------------
(* Properties of the recurrence and priority edits *)

\* C25: after edit with the recurrence action Set and a value other than
\* the task's recurrence, every targeted task is unfinished, has no finish
\* date, has the new recurrence and holds the new rec: token in its
\* subject, with or without a rec: tag before.
C25_RecurrenceSet ==
    (Called("edit") /\ LastOp.b.recurrence_act = "Set" /\ IsSome(LastOp.b.recurrence)
        /\ IsNone(LastOp.b.subject) /\ Len(tasks) = Len(old))
        => \A i \in Visited(LastOp.a, Len(old)) :
               ~equal_opt_rec(old[i].recurrence, LastOp.b.recurrence)
                   => /\ ~tasks[i].finished
                      /\ IsNone(tasks[i].finish_date)
                      /\ tasks[i].recurrence = LastOp.b.recurrence
                      /\ Contains(SplitWhitespace(tasks[i].subject),
                                  RecurrenceFormat(Unwrap(LastOp.b.recurrence)))

\* the edits of the priority alone
PriorityConfs ==
    {[DefaultConf EXCEPT !.priority = v, !.priority_act = "Set"] : v \in {0, 1, 25, NO_PRIORITY}}
        \cup {[DefaultConf EXCEPT !.priority_act = act] : act \in {"Delete", "Increase", "Decrease"}}

NextPriority == \E ids \in DoneIds, c \in PriorityConfs : Edit(ids, c)

SpecPriority == Init /\ [][NextPriority]_vars

\* the priority an action is to leave, from the priority p before it
PriorityAfter(c, p) ==
    CASE c.priority_act = "Set" -> c.priority
      [] c.priority_act = "Delete" -> NO_PRIORITY
      [] c.priority_act = "Increase" -> IF p = NO_PRIORITY THEN 25 ELSE IF p = 0 THEN 0 ELSE p - 1
      [] c.priority_act = "Decrease" -> IF p = NO_PRIORITY THEN NO_PRIORITY ELSE p + 1

\* C26: under every sequence of priority edits the priority stays in
\* 0..26; Set gives the value, Delete no priority, Increase one letter
\* toward A (A stays, no priority becomes Z), Decrease one letter toward Z
\* (Z becomes no priority, no priority stays); the flag of a task is true
\* exactly when its priority changed.
C26_PriorityActions ==
    /\ \A i \in 1..Len(tasks) : tasks[i].priority \in 0..NO_PRIORITY
    /\ (Called("edit") /\ LastOp.b \in PriorityConfs)
          => LET idlist == IF IsSome(LastOp.a) THEN Unwrap(LastOp.a) ELSE make_id_vec(Len(old))
             IN /\ Len(tasks) = Len(old)
                /\ Len(ret) = Len(idlist)
                /\ \A i \in 1..Len(old) :
                       tasks[i].priority =
                           IF i \in Visited(LastOp.a, Len(old))
                           THEN PriorityAfter(LastOp.b, old[i].priority)
                           ELSE old[i].priority
                /\ \A k \in 1..Len(idlist) :
                       ret[k] <=> /\ idlist[k] < Len(old)
                                  /\ tasks[idlist[k] + 1].priority # old[idlist[k] + 1].priority

\* Decrease on a task of priority Z: the priority is removed, the flag is true
C26_Witness ==
    /\ Called("edit")
    /\ LastOp.b = [DefaultConf EXCEPT !.priority_act = "Decrease"]
    /\ old[1].priority = 25
    /\ tasks[1].priority = NO_PRIORITY
    /\ ret[1]

-----------------------------------------------------------------------------
(* Properties of done and of the timer tags *)

\* the word is a tmr: or a spent: token
TimerWord(w) ==
    StartsWith(w, TIMER_TAG \o <<":">>) \/ StartsWith(w, SPENT_TAG \o <<":">>)

\* the word is a due: or a t: token, which done rewrites
DateWord(w) ==
    StartsWith(w, DUE_TAG \o <<":">>) \/ StartsWith(w, THR_TAG \o <<":">>)

\* the words of a subject that a clone is to keep as they are
KeptWords(subject) ==
    SelectSeq(SplitWhitespace(subject), LAMBDA w : ~TimerWord(w) /\ ~DateWord(w))

\* C27: for every recurring task with a tmr tag that done visits, done
\* appends a task that has neither a tmr nor a spent tag, in its tags map
\* or in its subject, and whose other subject words are those of the
\* original in their order.
C27_CloneHasNoTimer ==
    (Called("done") /\ TaskIdle)
        => \A i \in Visited(LastOp.a, Len(old)) :
               (Recurring(old[i]) /\ ~UntilPassed(old[i]) /\ MapHas(old[i].tags, TIMER_TAG))
                   => \E j \in (Len(old) + 1)..Len(tasks) :
                          /\ ~MapHas(tasks[j].tags, TIMER_TAG)
                          /\ ~MapHas(tasks[j].tags, SPENT_TAG)
                          /\ \A k \in 1..Len(SplitWhitespace(tasks[j].subject)) :
                                 ~TimerWord(SplitWhitespace(tasks[j].subject)[k])
                          /\ SelectSeq(SplitWhitespace(tasks[j].subject),
                                       LAMBDA w : ~DateWord(w))
                                 = KeptWords(old[i].subject)

\* the subject of t holds the token name:value for the value tags has for name
TagInSubject(t, name) ==
    MapHas(t.tags, name)
        => Contains(SplitWhitespace(t.subject), MakeTag(name, t.tags[name]))

\* C28: after start_timer or stop_timer changed a task, its subject holds
\* the tmr and spent tokens with the values of the tags map, and the task
\* printed and parsed again has the same timer state and the same seconds.
C28_TimerInSubject ==
    ((Called("start_timer") \/ Called("stop_timer")) /\ ret[1])
        => /\ TagInSubject(tasks[1], TIMER_TAG)
           /\ TagInSubject(tasks[1], SPENT_TAG)
           /\ Running(Parse(Format(tasks[1]), today)) = Running(tasks[1])
           /\ SpentOf(Parse(Format(tasks[1]), today)) = SpentOf(tasks[1])

(***************************************************************************)
(* Sessions of done, undone, start, stop and of Task::next_dates on the *)
(* first task, over lists whose tasks carry timer tags and recurrences, *)
(* checked under SpecDone *)

\* "foo rec:0d due:2020-01-20"
LineRecZeroDue == <<"f", "o", "o", " ", "r", "e", "c", ":", "0", "d", " ", "d", "u", "e", ":", "2", "0", "2", "0", "-", "0", "1", "-", "2", "0">>

\* "foo rec:+0m t:2020-01-01"
LineRecZeroThr == <<"f", "o", "o", " ", "r", "e", "c", ":", "+", "0", "m", " ", "t", ":", "2", "0", "2", "0", "-", "0", "1", "-", "0", "1">>

\* "foo rec:1w due:2020-01-20 tmr:50"
LineRecTimer == <<"f", "o", "o", " ", "r", "e", "c", ":", "1", "w", " ", "d", "u", "e", ":", "2", "0", "2", "0", "-", "0", "1", "-", "2", "0", " ", "t", "m", "r", ":", "5", "0">>

DoneLists ==
    {<<LineTimerWord, LineTimerOn>>,
     <<LineTimerOff, LineSpentWord>>,
     <<LineRecTimer, LinePlain>>,
     <<LineRecZeroDue, LineDoneBare>>,
     <<LineRecZeroThr>>}

InitDone ==
    /\ today = Today0
    /\ clock = Clock0
    /\ \E lines \in DoneLists : tasks = [i \in 1..Len(lines) |-> from_str(lines[i], today)]
    /\ origin = tasks
    /\ old = tasks
    /\ hist = <<>>
    /\ ret = <<>>
    /\ pc = "idle"
    /\ disk = NoFiles
    /\ cursor = 0

NextDone ==
    \/ \E ids \in DoneIds : Done(ids)
    \/ \E ids \in DoneIds : Undone(ids)
    \/ \E ids \in DoneIds, wait \in Waits : Start(ids, wait)
    \/ \E ids \in DoneIds, wait \in Waits : Stop(ids, wait)
    \/ TaskNextDates

SpecDone == InitDone /\ [][NextDone]_vars

\* C29: after done, no visited task that is finished has a running timer,
\* whatever value its tmr tag had before the call, a number or not.
C29_DoneStopsTimer ==
    (Called("done") /\ TaskIdle)
        => \A i \in Visited(LastOp.a, Len(old)) :
               tasks[i].finished => ~is_timer_on(tasks[i])

\* C30: done and next_dates return for every task that parse produces, a
\* task whose recurrence has count 0 and whose due or threshold date is
\* before today included: no call is left inside a loop that advances a date.
C30_DateLoopsEnd ==
    (Called("done") \/ Called("next_dates")) => TaskIdle

====
